---------------------------- MODULE Spec2Model ----------------------------
(***************************************************************************)
(* Verification model of the Arborist core: the per-level split-signature  *)
(* matrix (splitsig.cc), the pre-tree (pretree.cc) and the packed forest   *)
(* with its prediction walkers (dectree.cc).                               *)
(*                                                                         *)
(* Doubles are modelled on an integer grid.  -DBL_MAX is the definition    *)
(* NegDblMax, smaller than every modelled value.                           *)
(***************************************************************************)
EXTENDS Integers, Sequences, FiniteSets, TLC

VARIABLES
  \* ---- SplitSig (splitsig.cc) ----
  nPred,        \* SplitSig::nPred, set by SplitSig::Immutables
  splitCount,   \* SplitSig::splitCount of the current level
  levelSS,      \* SplitSig::levelSS: NullArr, or the level's SSNode matrix
  ssWritten,    \* history: slots written by Write since the last LevelInit
  ssStale,      \* history: slot 0 was written in an earlier level
  ssArg,        \* history: arguments and result of the last ArgMax call
  ssHist,       \* history: per (split node, predictor) pair written in this
                \* level, the info of the last Write call for it
  \* ---- Predictor frame and response ----
  predictor,    \* Predictor: [nPredNum, nPredFac, maxFacCard]
  ctgWidth,     \* Response: number of categories, 0 for regression
  xObs,         \* Predictor::numBase / facBase: xObs[row][predictor]
  \* ---- PreTree (pretree.cc) ----
  heightEst,    \* PreTree::heightEst
  pt,           \* the PreTree under construction: [nodeCount, nodeVec,
                \* treeHeight, leafCount, bitLength, treeBitOffset,
                \* treeSplitBits, sample2PT, sample, bagCount, inBag]
  ptOut,        \* the vectors ConsumeNodes has filled: [pred, num, bump]
  lastCS,       \* history: the CheckStorage call just made on pt, with the
                \* PreTree before it; none once pt has been operated on again
  \* ---- Training of one tree (SamplePred, Bottom) ----
  buf,          \* SamplePred: per predictor, the sample indices in buffer order
  frontier,     \* Bottom: the splitable nodes, [ptId, start, end]
  lastNT,       \* history: the last SSNode::NonTerminal call and its effects
  \* ---- DecTree (dectree.cc) ----
  ptBlock,      \* the block of finished PreTrees awaiting BlockConsume
  ptDone,       \* history: the PreTrees consumed, as they were when consumed
  dt,           \* the statics of DecTree, as a record
  predOut,      \* the outputs of the last prediction
  bagSet,       \* history: per tree, the ptInBag handed to SetBagRow
  \* ---- The height-estimate loops of PreTree, step by step ----
  hPc,          \* the loop running: "idle", "immutables" or "refine"
  twoLBit,      \* the local twoL of Immutables, as the position of its one
                \* set bit; SlotBits once the bit has been shifted out
  hCall         \* history: the call running or last returned, with its
                \* arguments and the heightEst it found

ssVars == <<nPred, splitCount, levelSS, ssWritten, ssStale, ssArg, ssHist>>
obsVars == <<predictor, ctgWidth, xObs>>
ptVars == <<heightEst, pt, ptOut, lastCS>>
trVars == <<buf, frontier, lastNT>>
dtVars == <<ptBlock, ptDone, dt, predOut, bagSet>>

hVars == <<hPc, twoLBit, hCall>>

vars == <<ssVars, obsVars, ptVars, trVars, dtVars, hVars>>

\* The null pointer of an array: no element.
NullArr == << >>

\* No call made yet.
NoCall == << >>

\* An indeterminate value: a field no constructor or assignment has set.
Indet == "indeterminate"
\* The value of a pointer whose array has been deleted.
Dangling == <<"deleted">>

(***************************************************************************)
(* Bounds of the model.                                                    *)
(***************************************************************************)
\* Largest number of slots nPred * splitCount of a level matrix.
MaxSlots == 4
\* Largest information value written by a split search.
MaxInfo == 1

\* Number of rows of the predictor frame, and largest sample count.
MaxRow == 3
\* Cardinality of a factor predictor.
MaxCard == 3
\* Largest number of trees of a forest.
MaxTree == 2
\* Largest number of pre-tree nodes grown by direct PreTree calls.
MaxHeight == 5
\* Largest predictor value, on a grid of even numbers.
MaxVal == 1

\* -DBL_MAX, the default info of an SSNode.
NegDblMax == -1000

\* The null SSNode pointer that ArgMax starts from and may return.
NullSlot == -1

\* PTNode::lhId of a terminal node.
NoLh == -1

\* Bits of an unsigned int slot of the in-bag bitmaps.
SlotBits == 32

(***************************************************************************)
(* SplitSig                                                                *)
(***************************************************************************)
\* Information values a split search can write.
InfoVals == 0 .. MaxInfo
\* Thresholds ArgMax is called with: every finite value around the infos,
\* including negative ones and -DBL_MAX itself.
GainVals == {NegDblMax} \cup (-1 .. MaxInfo)

\* The remaining arguments of Write, as the split search of predictor p
\* passes them: a numeric split (setIdx = -1) for the predictors of even
\* index, a run split (setIdx = p) for those of odd index, which stand for
\* the factors.
SSPayload(p) == IF p % 2 = 0
                THEN [setIdx |-> -1, sCount |-> 2, lhIdxCount |-> 1]
                ELSE [setIdx |-> p, sCount |-> 1, lhIdxCount |-> 1]

\* Mutant of SSNodeDefault: info starts at zero, as the comments of
\* Immutables and LevelInit still say.
SSNodeZeroInfo == [info |-> 0, predIdx |-> Indet, setIdx |-> Indet,
                   sCount |-> Indet, lhIdxCount |-> Indet]

\* SSNode::SSNode(): only info is initialized.
SSNodeDefault == [info |-> NegDblMax, predIdx |-> Indet, setIdx |-> Indet,
                  sCount |-> Indet, lhIdxCount |-> Indet]

\* SplitSig::Lookup: predictor-major slot of (split node, predictor).
Lookup(bottomIdx, predIdx) == predIdx * splitCount + bottomIdx

\* SplitSig::LevelInit: new SSNode[nPred * splitCount].
LevelInit(sc) ==
  /\ levelSS = NullArr
  /\ splitCount' = sc
  /\ levelSS' = [s \in 0 .. (nPred * sc - 1) |-> SSNodeDefault]
  /\ ssWritten' = {}
  /\ ssHist' = << >>
  /\ ssArg' = NoCall
  /\ UNCHANGED <<nPred, ssStale>>

\* SplitSig::LevelClear: delete [] levelSS.
LevelClear ==
  /\ levelSS # NullArr
  /\ levelSS' = NullArr
  /\ ssStale' = (ssStale \/ 0 \in ssWritten)
  /\ ssArg' = NoCall
  /\ UNCHANGED <<nPred, splitCount, ssWritten, ssHist>>

\* The SSNode that Write builds from its arguments.
WriteNode(predIdx, setIdx, sCount, lhIdxCount, info) ==
  [info |-> info, predIdx |-> predIdx, setIdx |-> setIdx,
   sCount |-> sCount, lhIdxCount |-> lhIdxCount]

\* SplitSig::Write.
Write(bottomIdx, predIdx, setIdx, sCount, lhIdxCount, info) ==
  /\ levelSS # NullArr
  /\ levelSS' = [levelSS EXCEPT ![Lookup(bottomIdx, predIdx)] =
                    WriteNode(predIdx, setIdx, sCount, lhIdxCount, info)]
  /\ ssWritten' = ssWritten \cup {Lookup(bottomIdx, predIdx)}
  /\ ssHist' = (<<bottomIdx, predIdx>> :> info) @@ ssHist
  /\ ssArg' = NoCall
  /\ UNCHANGED <<nPred, splitCount, ssStale>>

\* Mutant of ArgMaxLoop: gainMax is not raised to the candidate's info, so
\* the last slot above the threshold is returned.
RECURSIVE ArgMaxLoopKeepGain(_, _, _, _)
ArgMaxLoopKeepGain(predIdx, predOff, argMax, gainMax) ==
  IF predIdx >= nPred THEN argMax
  ELSE IF levelSS[predOff].info > gainMax
       THEN ArgMaxLoopKeepGain(predIdx + 1, predOff + splitCount, predOff, gainMax)
       ELSE ArgMaxLoopKeepGain(predIdx + 1, predOff + splitCount, argMax, gainMax)

\* Mutant of ArgMaxLoop: a candidate of equal info replaces the current one
\* (>= for >).
RECURSIVE ArgMaxLoopGeq(_, _, _, _)
ArgMaxLoopGeq(predIdx, predOff, argMax, gainMax) ==
  IF predIdx >= nPred THEN argMax
  ELSE IF levelSS[predOff].info >= gainMax /\ (argMax # NullSlot \/ levelSS[predOff].info > gainMax)
       THEN ArgMaxLoopGeq(predIdx + 1, predOff + splitCount, predOff,
                          levelSS[predOff].info)
       ELSE ArgMaxLoopGeq(predIdx + 1, predOff + splitCount, argMax, gainMax)

\* The loop of SplitSig::ArgMax from predictor predIdx on: the pair
\* <<argMax, gainMax>> is updated when the candidate's info is greater.
RECURSIVE ArgMaxLoop(_, _, _, _)
ArgMaxLoop(predIdx, predOff, argMax, gainMax) ==
  IF predIdx >= nPred THEN argMax
  ELSE IF levelSS[predOff].info > gainMax
       THEN ArgMaxLoop(predIdx + 1, predOff + splitCount, predOff,
                       levelSS[predOff].info)
       ELSE ArgMaxLoop(predIdx + 1, predOff + splitCount, argMax, gainMax)

\* A variant of ArgMaxOffsets that steps by the count of predictors.
RECURSIVE ArgMaxOffsetsByPred(_, _)
ArgMaxOffsetsByPred(predIdx, predOff) ==
  IF predIdx >= nPred THEN {}
  ELSE {predOff} \cup ArgMaxOffsetsByPred(predIdx + 1, predOff + nPred)

\* The header of the loop of SplitSig::ArgMax: the offsets into levelSS
\* that the loop reads from predictor predIdx on.
RECURSIVE ArgMaxOffsets(_, _)
ArgMaxOffsets(predIdx, predOff) ==
  IF predIdx >= nPred THEN {}
  ELSE {predOff} \cup ArgMaxOffsets(predIdx + 1, predOff + splitCount)

\* SplitSig::ArgMax: the slot returned, NullSlot for the null pointer.
ArgMax(levelIdx, gainMax) == ArgMaxLoop(0, levelIdx, NullSlot, gainMax)

\* A call of ArgMax by the level coordinator.
ArgMaxCall(levelIdx, gainMax) ==
  /\ levelSS # NullArr
  /\ ssArg' = [levelIdx |-> levelIdx, gainMax |-> gainMax,
               res |-> ArgMax(levelIdx, gainMax),
               reads |-> ArgMaxOffsets(0, levelIdx)]
  /\ UNCHANGED <<nPred, splitCount, levelSS, ssWritten, ssStale, ssHist>>

(***************************************************************************)
(* Predictor frame and sampled response (Predictor, Response and Sample    *)
(* are missing from the sources: from the specification, sections 3, 4.A   *)
(* and 4.B).  Numeric predictors come first, the factors after them.       *)
(* Numeric values lie on a grid of even numbers, so that the midpoint of   *)
(* two of them is on the integer grid.                                     *)
(***************************************************************************)
Rows == DOMAIN xObs
NPredAll == predictor.nPredNum + predictor.nPredFac

\* Predictor::FacIdx: the factor index of a predictor, -1 if numeric.
FacIdx(p) == IF p >= predictor.nPredNum THEN p - predictor.nPredNum ELSE -1

\* Values of a numeric predictor.
NumVals == { 2 * k : k \in 0 .. MaxVal }

RECURSIVE Pow(_, _)
Pow(b, e) == IF e = 0 THEN 1 ELSE b * Pow(b, e - 1)

\* Multiplicity of row r in a bag that holds it (BagRow sCount >= 1).
RowSCount(r) == 1 + (r % 2)

\* Regression response of row r; the powers of three make the sums of
\* distinct sets of rows distinct.
RowY(r) == Pow(3, r)

\* Response category of row r under classification.
RowCtg(r) == r % ctgWidth

\* Sum of f[x] over the elements x of S.
RECURSIVE SumOver(_, _)
SumOver(S, f) ==
  IF S = {} THEN 0
  ELSE LET x == CHOOSE y \in S : TRUE IN f[x] + SumOver(S \ {x}, f)

\* Sum of the response summaries y * sCount of the samples S of a tree.
SumOfSamples(ptree, S) ==
  SumOver(S, [s \in S |-> RowY(ptree.sample[s]) * RowSCount(ptree.sample[s])])

\* Sum of the multiplicities of the samples S of a tree.
CountOfSamples(ptree, S) == SumOver(S, [s \in S |-> RowSCount(ptree.sample[s])])

\* Rank of row r in the column of predictor p: ties share a rank.
Rank(p, r) ==
  IF FacIdx(p) >= 0 THEN xObs[r][p]
  ELSE Cardinality({ xObs[t][p] : t \in { u \in Rows : xObs[u][p] < xObs[r][p] } })

\* The value that holds rank r in the column of numeric predictor p.
ValOfRank(p, r) == xObs[CHOOSE t \in Rows : Rank(p, t) = r][p]

(***************************************************************************)
(* PreTree (pretree.cc)                                                    *)
(***************************************************************************)
\* PreTree::Immutables: the loop doubling twoL while twoL * minH < nSamp.
RECURSIVE ImmutablesTwoL(_, _, _)
ImmutablesTwoL(twoL, nSamp, minH) ==
  IF twoL * minH < nSamp THEN ImmutablesTwoL(twoL * 2, nSamp, minH) ELSE twoL

\* PreTree::Immutables: heightEst = twoL << 2.
ImmutablesHeightEst(nSamp, minH) == ImmutablesTwoL(1, nSamp, minH) * 4

\* A PTNode as new PTNode[] leaves it: no field is set.
PTNodeIndet == [id |-> Indet, lhId |-> Indet, predIdx |-> Indet,
                splitVal |-> Indet, info |-> Indet]

\* PreTree::BitFactory: the bit vector, all false, and its length; no
\* vector (and bitLength left unset) when there is no factor predictor.
BitFactory(p, bitLen) ==
  IF predictor.nPredFac > 0
  THEN LET len == IF bitLen = 0 THEN p.nodeCount * predictor.maxFacCard ELSE bitLen
       IN  [p EXCEPT !.bitLength = len,
                     !.treeSplitBits = [i \in 0 .. (len - 1) |-> FALSE]]
  ELSE [p EXCEPT !.treeSplitBits = NullArr]

\* The bag of a tree as Response::StageSamples leaves it: the bagged rows
\* in row order, one sample each, and the in-bag bits by 32-bit slot.
StageSamples(bagRows) ==
  [sample |-> [s \in 0 .. (Cardinality(bagRows) - 1) |->
                 CHOOSE r \in bagRows : Cardinality({ t \in bagRows : t < r }) = s],
   inBag |-> [slot \in 0 .. ((Cardinality(Rows) + SlotBits - 1) \div SlotBits - 1) |->
                SumOver({ r \in bagRows : r \div SlotBits = slot },
                        [r \in bagRows |-> Pow(2, r % SlotBits)])]]

\* PreTree::PreTree followed by PreTree::BagRows: a terminal root of id 0,
\* every sample mapped to the root.
PreTreeNew(hEst, bagRows) ==
  BitFactory(
    [nodeCount |-> hEst,
     nodeVec |-> [i \in 0 .. (hEst - 1) |->
                    IF i = 0 THEN [PTNodeIndet EXCEPT !.id = 0, !.lhId = NoLh]
                    ELSE PTNodeIndet],
     treeHeight |-> 1,
     leafCount |-> 1,
     bitLength |-> Indet,
     treeBitOffset |-> 0,
     treeSplitBits |-> NullArr,
     sample |-> StageSamples(bagRows).sample,
     inBag |-> StageSamples(bagRows).inBag,
     bagCount |-> Cardinality(bagRows),
     sample2PT |-> [s \in 0 .. (Cardinality(bagRows) - 1) |-> 0]], 0)

\* Mutant of TerminalOffspring: the watermark is not advanced past the
\* right-hand child (ptRH = treeHeight without the increment).
TerminalOffspringOneInc(p, parId) ==
  LET ptLH == p.treeHeight
      ptRH == p.treeHeight + 1
  IN  [p EXCEPT !.nodeVec = [@ EXCEPT ![parId].lhId = ptLH,
                                      ![ptLH].id = ptLH, ![ptLH].lhId = NoLh,
                                      ![ptRH].id = ptRH, ![ptRH].lhId = NoLh],
                !.treeHeight = @ + 1,
                !.leafCount = @ + 2]

\* PreTree::TerminalOffspring: ptLH = treeHeight, ptRH = treeHeight + 1.
TerminalOffspring(p, parId) ==
  LET ptLH == p.treeHeight
      ptRH == p.treeHeight + 1
  IN  [p EXCEPT !.nodeVec = [@ EXCEPT ![parId].lhId = ptLH,
                                      ![ptLH].id = ptLH, ![ptLH].lhId = NoLh,
                                      ![ptRH].id = ptRH, ![ptRH].lhId = NoLh],
                !.treeHeight = @ + 2,
                !.leafCount = @ + 2]

\* A variant of NonTerminal that leaves leafCount as it was.
NonTerminalNoDec(p, id, info, splitVal, predIdx) ==
  [p EXCEPT !.nodeVec = [@ EXCEPT ![id].predIdx = predIdx, ![id].info = info,
                                  ![id].splitVal = splitVal]]

\* PreTree::NonTerminal.
NonTerminal(p, id, info, splitVal, predIdx) ==
  [p EXCEPT !.nodeVec = [@ EXCEPT ![id].predIdx = predIdx, ![id].info = info,
                                  ![id].splitVal = splitVal],
            !.leafCount = @ - 1]

\* PreTree::ReNodes: twice the capacity, the nodes below treeHeight copied.
ReNodes(p) ==
  [p EXCEPT !.nodeCount = 2 * @,
            !.nodeVec = [i \in 0 .. (2 * p.nodeCount - 1) |->
                           IF i < p.treeHeight THEN p.nodeVec[i] ELSE PTNodeIndet]]

\* A variant of ReBits that copies no bit into the new vector.
ReBitsNoCopy(p) == BitFactory(p, 2 * p.bitLength)

\* PreTree::ReBits: twice the length, the bits below treeBitOffset copied.
ReBits(p) ==
  LET q == BitFactory(p, 2 * p.bitLength)
  IN  [q EXCEPT !.treeSplitBits = [i \in DOMAIN q.treeSplitBits |->
                                     IF i < p.treeBitOffset THEN p.treeSplitBits[i]
                                     ELSE q.treeSplitBits[i]]]

\* PreTree::CheckStorage.
CheckStorage(p, splitNext, leafNext) ==
  LET q == IF p.treeHeight + splitNext + leafNext > p.nodeCount THEN ReNodes(p) ELSE p
  IN  IF predictor.nPredFac > 0
         /\ q.treeBitOffset + splitNext * predictor.maxFacCard > q.bitLength
      THEN ReBits(q) ELSE q

\* Sample::Scores (missing from the sources; from the specification,
\* sections 4.G and 6): for every pre-tree index the number of samples
\* mapped to it and their score, zero where no sample is mapped.  The score
\* is the mean response under regression and, under classification, the
\* category of greatest weight, the lowest one on ties.
Scores(p) ==
  LET at(i) == { s \in DOMAIN p.sample2PT : p.sample2PT[s] = i }
      cnt(i) == CountOfSamples(p, at(i))
      wt(i, c) == CountOfSamples(p, { s \in at(i) : RowCtg(p.sample[s]) = c })
      top(i) == CHOOSE c \in 0 .. (ctgWidth - 1) :
                  \A d \in 0 .. (ctgWidth - 1) :
                    wt(i, d) < wt(i, c) \/ (wt(i, d) = wt(i, c) /\ c <= d)
  IN  [nodeVal |-> [i \in 0 .. (p.treeHeight - 1) |-> Cardinality(at(i))],
       numVec |-> [i \in 0 .. (p.treeHeight - 1) |->
                     IF cnt(i) = 0 THEN 0
                     ELSE IF ctgWidth > 0 THEN top(i)
                     ELSE SumOfSamples(p, at(i)) \div cnt(i)]]

\* A variant of PTNodeConsume that clears all three outputs of a leaf.
PTNodeConsumeAll(node, pred, num, bump) ==
  IF node.lhId > 0
  THEN [pred |-> node.predIdx, num |-> node.splitVal, bump |-> node.lhId - node.id]
  ELSE [pred |-> 0, num |-> 0, bump |-> 0]

\* A variant of PTNodeConsume that takes the difference the other way round.
PTNodeConsumeBackBump(node, pred, num, bump) ==
  IF node.lhId > 0
  THEN [pred |-> node.predIdx, num |-> node.splitVal, bump |-> node.id - node.lhId]
  ELSE [pred |-> pred, num |-> num, bump |-> 0]

\* Mutant of PTNodeConsume: the bump of a split is the left-hand index.
PTNodeConsumeAbs(node, pred, num, bump) ==
  IF node.lhId > 0
  THEN [pred |-> node.predIdx, num |-> node.splitVal, bump |-> node.lhId]
  ELSE [pred |-> pred, num |-> num, bump |-> 0]

\* Mutant of PTNodeConsume: a left-hand index of 1 is taken for a leaf
\* (lhId > 1 for lhId > 0).
PTNodeConsumeGt1(node, pred, num, bump) ==
  IF node.lhId > 1
  THEN [pred |-> node.predIdx, num |-> node.splitVal, bump |-> node.lhId - node.id]
  ELSE [pred |-> pred, num |-> num, bump |-> 0]

\* PTNode::Consume: the three outputs for a node, given their values
\* before the call.
PTNodeConsume(node, pred, num, bump) ==
  IF node.lhId > 0
  THEN [pred |-> node.predIdx, num |-> node.splitVal, bump |-> node.lhId - node.id]
  ELSE [pred |-> pred, num |-> num, bump |-> 0]

\* PreTree::ConsumeNodes into vectors of treeHeight fresh elements.
ConsumeNodes(p) ==
  LET sc == Scores(p)
      c(i) == PTNodeConsume(p.nodeVec[i], sc.nodeVal[i], sc.numVec[i], Indet)
  IN  [pred |-> [i \in 0 .. (p.treeHeight - 1) |-> c(i).pred],
       num |-> [i \in 0 .. (p.treeHeight - 1) |-> c(i).num],
       bump |-> [i \in 0 .. (p.treeHeight - 1) |-> c(i).bump]]

(***************************************************************************)
(* SamplePred (missing from the sources: from the specification, 4.C).     *)
(* b is the set of buffers: b[p][i] is the sample at position i of the     *)
(* source buffer of predictor p.                                           *)
(***************************************************************************)
\* Initial staging: the samples in rank order, ties in row order.
Stage(ptree, p) ==
  LET S == DOMAIN ptree.sample
      x(s) == xObs[ptree.sample[s]][p]
      before(s) == { t \in S : x(t) < x(s) \/ (x(t) = x(s) /\ t < s) }
  IN  [i \in S |-> CHOOSE s \in S : Cardinality(before(s)) = i]

\* SamplePred::SplitRanks: the ranks of the tuples at idxMid and idxMid + 1.
SplitRanks(ptree, b, p, idxMid) ==
  [rkLow |-> Rank(p, ptree.sample[b[p][idxMid]]),
   rkHigh |-> Rank(p, ptree.sample[b[p][idxMid + 1]])]

\* SamplePred::Replay: the samples at positions start .. end of the buffer
\* of predictor p are mapped to ptId; their response sum is returned.
Replay(ptree, b, p, start, end, ptId) ==
  LET hit == { b[p][i] : i \in start .. end }
  IN  [pt |-> [ptree EXCEPT !.sample2PT = [s \in DOMAIN @ |->
                                            IF s \in hit THEN ptId ELSE @[s]]],
       sum |-> SumOfSamples(ptree, hit)]

\* Restaging of the extent start .. end after a split: in every
\* predictor's buffer the samples of the left-hand node precede those of
\* the right-hand node, the order within each being kept.
Restage(ptree, b, start, end, ptLH) ==
  [p \in DOMAIN b |->
     LET lh == { i \in start .. end : ptree.sample2PT[b[p][i]] = ptLH }
         nLh == Cardinality(lh)
         lhBefore(i) == Cardinality({ j \in lh : j < i })
         rhBefore(i) == Cardinality({ j \in (start .. end) \ lh : j < i })
         dest(i) == IF i \in lh THEN start + lhBefore(i)
                    ELSE start + nLh + rhBefore(i)
     IN  [k \in DOMAIN b[p] |->
            IF k < start \/ k > end THEN b[p][k]
            ELSE b[p][CHOOSE i \in start .. end : dest(i) = k]]]

(***************************************************************************)
(* PreTree methods called by splitsig.cc that are missing from pretree.cc  *)
(* (from the specification, sections 4.F and 6)                            *)
(***************************************************************************)
\* PreTree::NonTerminalNum: two terminal offspring, and the node made a
\* numeric split at the midpoint of the values of the two ranks.
PreTreeNonTerminalNum(ptree, info, predIdx, rkLow, rkHigh, id) ==
  NonTerminal(TerminalOffspring(ptree, id), id, info,
              (ValOfRank(predIdx, rkLow) + ValOfRank(predIdx, rkHigh)) \div 2, predIdx)

\* PreTree::NonTerminalFac: two terminal offspring, and the node made a
\* factor split whose splitting value is the offset of its bits, the
\* bits of one factor being reserved.
PreTreeNonTerminalFac(ptree, info, predIdx, id) ==
  [NonTerminal(TerminalOffspring(ptree, id), id, info, ptree.treeBitOffset, predIdx)
     EXCEPT !.treeBitOffset = @ + predictor.maxFacCard]

\* PreTree::LHBit: sets the bit of factor level rank in the node's slot.
LHBit(ptree, id, rank) ==
  [ptree EXCEPT !.treeSplitBits[ptree.nodeVec[id].splitVal + rank] = TRUE]

(***************************************************************************)
(* Run sets (missing from the sources: from the specification, 4.D)        *)
(***************************************************************************)
\* The runs of the extent start .. end in the buffer of factor p: for each
\* level present, its rank and the bounds of its positions.
RunsOf(ptree, b, p, start, end) ==
  LET rk(i) == Rank(p, ptree.sample[b[p][i]])
  IN  { [rank |-> r,
         start |-> CHOOSE i \in start .. end :
                     rk(i) = r /\ \A j \in start .. end : rk(j) = r => i <= j,
         end |-> CHOOSE i \in start .. end :
                     rk(i) = r /\ \A j \in start .. end : rk(j) = r => j <= i]
        : r \in { rk(i) : i \in start .. end } }

\* The sequences without repetition of at least one and not all of the
\* elements of S: the left-hand runs a search can choose, by out slot.
RECURSIVE SeqsOf(_, _)
SeqsOf(S, n) ==
  IF n = 0 THEN { << >> }
  ELSE { Append(q, x) : q \in SeqsOf(S, n - 1), x \in S }

LhRunChoices(S) ==
  { q \in UNION { SeqsOf(S, n) : n \in 1 .. (Cardinality(S) - 1) } :
      \A i, j \in DOMAIN q : i # j => q[i] # q[j] }

(***************************************************************************)
(* SSNode::NonTerminal (splitsig.cc)                                       *)
(***************************************************************************)
\* Mutant of SSNodeNonTerminalNum: the right-hand replay starts one
\* position early.
SSNodeNonTerminalNumOverlap(ssn, ptree, b, start, end, ptId) ==
  LET rk == SplitRanks(ptree, b, ssn.predIdx, start + ssn.lhIdxCount - 1)
      p1 == PreTreeNonTerminalNum(ptree, ssn.info, ssn.predIdx, rk.rkLow, rk.rkHigh, ptId)
      ptLH == ptree.treeHeight
      ptRH == ptree.treeHeight + 1
      r1 == Replay(p1, b, ssn.predIdx, start, start + ssn.lhIdxCount - 1, ptLH)
      r2 == Replay(r1.pt, b, ssn.predIdx, start + ssn.lhIdxCount - 1, end, ptRH)
  IN  [pt |-> r2.pt, ptLH |-> ptLH, ptRH |-> ptRH, lhSum |-> r1.sum,
       replays |-> << <<start, start + ssn.lhIdxCount - 1, ptLH>>,
                      <<start + ssn.lhIdxCount - 1, end, ptRH>> >>]

\* SSNode::NonTerminalNum: the pre-tree after the call, the offspring, the
\* sum returned and the Replay calls made.
SSNodeNonTerminalNum(ssn, ptree, b, start, end, ptId) ==
  LET rk == SplitRanks(ptree, b, ssn.predIdx, start + ssn.lhIdxCount - 1)
      p1 == PreTreeNonTerminalNum(ptree, ssn.info, ssn.predIdx, rk.rkLow, rk.rkHigh, ptId)
      ptLH == ptree.treeHeight
      ptRH == ptree.treeHeight + 1
      r1 == Replay(p1, b, ssn.predIdx, start, start + ssn.lhIdxCount - 1, ptLH)
      r2 == Replay(r1.pt, b, ssn.predIdx, start + ssn.lhIdxCount, end, ptRH)
  IN  [pt |-> r2.pt, ptLH |-> ptLH, ptRH |-> ptRH, lhSum |-> r1.sum,
       replays |-> << <<start, start + ssn.lhIdxCount - 1, ptLH>>,
                      <<start + ssn.lhIdxCount, end, ptRH>> >>]

\* The loop of SSNode::NonTerminalRun over the out slots from outSlot on:
\* acc is [pt, lhSum, replays].
RECURSIVE RunLoop(_, _, _, _, _, _, _)
RunLoop(ssn, lhRuns, b, outSlot, ptId, ptLH, acc) ==
  IF outSlot > Len(lhRuns) THEN acc
  ELSE LET run == lhRuns[outSlot]
           p1 == LHBit(acc.pt, ptId, run.rank)
           r == Replay(p1, b, ssn.predIdx, run.start, run.end, ptLH)
       IN  RunLoop(ssn, lhRuns, b, outSlot + 1, ptId, ptLH,
                   [pt |-> r.pt, lhSum |-> acc.lhSum + r.sum,
                    replays |-> Append(acc.replays, <<run.start, run.end, ptLH>>)])

\* Mutant of SSNodeNonTerminalRun: the sum of the whole extent's replay is
\* kept in lhSum.
SSNodeNonTerminalRunSumAll(ssn, lhRuns, ptree, b, start, end, ptId) ==
  LET p1 == PreTreeNonTerminalFac(ptree, ssn.info, ssn.predIdx, ptId)
      ptLH == ptree.treeHeight
      ptRH == ptree.treeHeight + 1
      r0 == Replay(p1, b, ssn.predIdx, start, end, ptRH)
      acc == RunLoop(ssn, lhRuns, b, 1, ptId, ptLH,
                     [pt |-> r0.pt, lhSum |-> r0.sum,
                      replays |-> << <<start, end, ptRH>> >>])
  IN  [pt |-> acc.pt, ptLH |-> ptLH, ptRH |-> ptRH, lhSum |-> acc.lhSum,
       replays |-> acc.replays]

\* SSNode::NonTerminalRun; lhRuns are the runs that Run::RunBounds yields
\* for out slots 0 .. RunsLH(setIdx) - 1.
SSNodeNonTerminalRun(ssn, lhRuns, ptree, b, start, end, ptId) ==
  LET p1 == PreTreeNonTerminalFac(ptree, ssn.info, ssn.predIdx, ptId)
      ptLH == ptree.treeHeight
      ptRH == ptree.treeHeight + 1
      r0 == Replay(p1, b, ssn.predIdx, start, end, ptRH)
      acc == RunLoop(ssn, lhRuns, b, 1, ptId, ptLH,
                     [pt |-> r0.pt, lhSum |-> 0,
                      replays |-> << <<start, end, ptRH>> >>])
  IN  [pt |-> acc.pt, ptLH |-> ptLH, ptRH |-> ptRH, lhSum |-> acc.lhSum,
       replays |-> acc.replays]

\* SSNode::NonTerminal: dispatch on setIdx.
SSNodeNonTerminal(ssn, lhRuns, ptree, b, start, end, ptId) ==
  IF ssn.setIdx >= 0
  THEN SSNodeNonTerminalRun(ssn, lhRuns, ptree, b, start, end, ptId)
  ELSE SSNodeNonTerminalNum(ssn, ptree, b, start, end, ptId)

(***************************************************************************)
(* DecTree (dectree.cc): the forest under training, as a record d          *)
(***************************************************************************)
\* DecTree::nRow, as ObsImmutables sets it from the predictor frame.
NRow == Cardinality(Rows)

\* Bit number bit of the unsigned word val.
BitOf(val, bit) == (val \div Pow(2, bit)) % 2

\* val | (1 << bit) on an unsigned word: setting a clear bit below
\* SlotBits cannot carry out of the word.
OrBit(val, bit) == IF BitOf(val, bit) = 1 THEN val ELSE val + Pow(2, bit)

\* DecTree::FactoryTrain: the arrays allocated, the vectors of the packed
\* forest still null.
FactoryTrain(nTree) ==
  [nTree |-> nTree,
   forestSize |-> 0,
   treeOriginForest |-> [i \in 0 .. (nTree - 1) |-> Indet],
   treeSizes |-> [i \in 0 .. (nTree - 1) |-> Indet],
   predTree |-> [i \in 0 .. (nTree - 1) |-> Indet],
   splitTree |-> [i \in 0 .. (nTree - 1) |-> Indet],
   bumpTree |-> [i \in 0 .. (nTree - 1) |-> Indet],
   treeFacWidth |-> [i \in 0 .. (nTree - 1) |-> 0],
   treeFacSplits |-> [i \in 0 .. (nTree - 1) |-> Indet],
   inBag |-> [i \in 0 .. ((nTree * NRow + SlotBits - 1) \div SlotBits - 1) |-> 0],
   facOffForest |-> NullArr,
   facSplitForest |-> NullArr,
   predForest |-> NullArr,
   numForest |-> NullArr,
   bumpForest |-> NullArr]

\* DecTree::BagCoord (dectree.h is missing from the sources; from the
\* specification, section 3: word-packed with the tree as faster index).
BagCoord(inBag, nTree, treeNum, row) ==
  [off |-> (row * nTree + treeNum) \div SlotBits,
   bit |-> (row * nTree + treeNum) % SlotBits,
   val |-> inBag[(row * nTree + treeNum) \div SlotBits]]

\* A variant of SetBagRow that stores the mask instead of or-ing it into
\* the word read.
RECURSIVE SetBagRowStoreMask(_, _, _, _, _)
SetBagRowStoreMask(inBag, nTree, ptInBag, treeNum, row) ==
  IF row >= NRow THEN inBag
  ELSE IF BitOf(ptInBag[row \div SlotBits], row % SlotBits) = 1
       THEN LET c == BagCoord(inBag, nTree, treeNum, row)
            IN  SetBagRowStoreMask([inBag EXCEPT ![c.off] = Pow(2, c.bit)],
                                   nTree, ptInBag, treeNum, row + 1)
       ELSE SetBagRowStoreMask(inBag, nTree, ptInBag, treeNum, row + 1)

\* DecTree::SetBagRow: the loops over the slots and their rows, from row on.
RECURSIVE SetBagRow(_, _, _, _, _)
SetBagRow(inBag, nTree, ptInBag, treeNum, row) ==
  IF row >= NRow THEN inBag
  ELSE IF BitOf(ptInBag[row \div SlotBits], row % SlotBits) = 1
       THEN LET c == BagCoord(inBag, nTree, treeNum, row)
            IN  SetBagRow([inBag EXCEPT ![c.off] = OrBit(c.val, c.bit)],
                          nTree, ptInBag, treeNum, row + 1)
       ELSE SetBagRow(inBag, nTree, ptInBag, treeNum, row + 1)

\* DecTree::InBag.
InBag(d, treeNum, row) ==
  LET c == BagCoord(d.inBag, d.nTree, treeNum, row)
  IN  BitOf(c.val, c.bit) = 1

\* PreTree::SplitFacWidth (pretree.h is missing from the sources): the
\* number of split bits the tree has used.
SplitFacWidth(p) == p.treeBitOffset

\* PreTree::ConsumeSplitBits: the bits below treeBitOffset, as integers.
ConsumeSplitBits(p) ==
  [i \in 0 .. (p.treeBitOffset - 1) |-> IF p.treeSplitBits[i] THEN 1 ELSE 0]

\* DecTree::BlockConsume: the loop over the block from treeIdx on; yields
\* the forest and the sum of the bag counts.
RECURSIVE BlockConsume(_, _, _, _, _, _)
BlockConsume(d, block, treeBlock, treeStart, treeIdx, totBagCount) ==
  IF treeIdx >= treeBlock THEN [dt |-> d, totBagCount |-> totBagCount]
  ELSE LET p == block[treeIdx + 1]
           treeNum == treeStart + treeIdx
           out == ConsumeNodes(p)
           facWidth == SplitFacWidth(p)
       IN  BlockConsume(
             [d EXCEPT !.inBag = SetBagRow(d.inBag, d.nTree, p.inBag, treeNum, 0),
                       !.treeSizes[treeNum] = p.treeHeight,
                       !.predTree[treeNum] = out.pred,
                       !.splitTree[treeNum] = out.num,
                       !.bumpTree[treeNum] = out.bump,
                       !.treeFacWidth[treeNum] = facWidth,
                       !.treeFacSplits[treeNum] =
                          IF facWidth > 0 THEN ConsumeSplitBits(p) ELSE NullArr,
                       !.treeOriginForest[treeNum] = d.forestSize,
                       !.forestSize = @ + p.treeHeight],
             block, treeBlock, treeStart, treeIdx + 1, totBagCount + p.bagCount)

\* A variant of ConsumeFacSplits that lays the bits of each tree out in
\* descending order.
RECURSIVE ConsumeFacSplitsBackward(_, _, _, _, _)
ConsumeFacSplitsBackward(d, facSplitForest, tn, facSplit, i) ==
  IF tn >= d.nTree THEN facSplitForest
  ELSE IF i >= d.treeFacWidth[tn]
       THEN ConsumeFacSplitsBackward(d, facSplitForest, tn + 1,
                                     facSplit + d.treeFacWidth[tn], 0)
       ELSE ConsumeFacSplitsBackward(
              d, [facSplitForest EXCEPT
                    ![facSplit + d.treeFacWidth[tn] - 1 - i] = d.treeFacSplits[tn][i]],
              tn, facSplit, i + 1)

\* DecTree::ConsumeTrees, the loops that copy the split bits: from bit i of
\* tree tn on, facSplit being the offset of the moving pointer.
RECURSIVE ConsumeFacSplits(_, _, _, _, _)
ConsumeFacSplits(d, facSplitForest, tn, facSplit, i) ==
  IF tn >= d.nTree THEN facSplitForest
  ELSE IF i >= d.treeFacWidth[tn]
       THEN ConsumeFacSplits(d, facSplitForest, tn + 1,
                             facSplit + d.treeFacWidth[tn], 0)
       ELSE ConsumeFacSplits(
              d, [facSplitForest EXCEPT ![facSplit + i] = d.treeFacSplits[tn][i]],
              tn, facSplit, i + 1)

\* A variant of ConsumeForestNodes that lays the nodes of each tree out in
\* descending order.
RECURSIVE ConsumeForestNodesBackward(_, _, _, _)
ConsumeForestNodesBackward(d, forest, i, j) ==
  IF i >= d.nTree THEN forest
  ELSE IF j >= d.treeSizes[i] THEN ConsumeForestNodesBackward(d, forest, i + 1, 0)
       ELSE LET k == d.treeOriginForest[i] + d.treeSizes[i] - 1 - j
            IN  ConsumeForestNodesBackward(
                  d, [forest EXCEPT !.pred[k] = d.predTree[i][j],
                                    !.num[k] = d.splitTree[i][j],
                                    !.bump[k] = d.bumpTree[i][j]],
                  i, j + 1)

\* DecTree::ConsumeTrees, the loops that copy the nodes: from node j of tree
\* i on; forest is [pred, num, bump], the three forest-wide vectors.
RECURSIVE ConsumeForestNodes(_, _, _, _)
ConsumeForestNodes(d, forest, i, j) ==
  IF i >= d.nTree THEN forest
  ELSE IF j >= d.treeSizes[i] THEN ConsumeForestNodes(d, forest, i + 1, 0)
       ELSE LET start == d.treeOriginForest[i]
            IN  ConsumeForestNodes(
                  d, [forest EXCEPT !.pred[start + j] = d.predTree[i][j],
                                    !.num[start + j] = d.splitTree[i][j],
                                    !.bump[start + j] = d.bumpTree[i][j]],
                  i, j + 1)

\* The offsets of the trees' split bits: the loop from tree tn on.
RECURSIVE FacOffsets(_, _, _, _)
FacOffsets(d, facOffForest, cumFacWidth, tn) ==
  IF tn >= d.nTree THEN [facOffForest |-> facOffForest, cumFacWidth |-> cumFacWidth]
  ELSE FacOffsets(d, [facOffForest EXCEPT ![tn] = cumFacWidth],
                  cumFacWidth + d.treeFacWidth[tn], tn + 1)

\* DecTree::ConsumeTrees; cumFacWidth is its output parameter.
ConsumeTrees(d) ==
  LET fresh(n) == [k \in 0 .. (n - 1) |-> Indet]
      offs == FacOffsets(d, fresh(d.nTree), 0, 0)
      cumFacWidth == offs.cumFacWidth
      forest == ConsumeForestNodes(
                  d, [pred |-> fresh(d.forestSize), num |-> fresh(d.forestSize),
                      bump |-> fresh(d.forestSize)], 0, 0)
  IN  [dt |-> [d EXCEPT
         !.facOffForest = offs.facOffForest,
         !.facSplitForest =
            IF cumFacWidth > 0
            THEN ConsumeFacSplits(d, fresh(cumFacWidth), 0, 0, 0)
            ELSE @,
         !.treeFacSplits = [tn \in 0 .. (d.nTree - 1) |->
                              IF cumFacWidth > 0 /\ d.treeFacWidth[tn] > 0
                              THEN NullArr ELSE @[tn]],
         !.predForest = forest.pred,
         !.numForest = forest.num,
         !.bumpForest = forest.bump,
         !.predTree = [tn \in 0 .. (d.nTree - 1) |-> Dangling],
         !.splitTree = [tn \in 0 .. (d.nTree - 1) |-> Dangling],
         !.bumpTree = [tn \in 0 .. (d.nTree - 1) |-> Dangling]],
       cumFacWidth |-> cumFacWidth,
       forestSize |-> d.forestSize]

(***************************************************************************)
(* The row walkers.  The loop of each walker is an operator of the index   *)
(* reached; the classification walkers repeat the loops of the regression  *)
(* walkers.                                                                *)
(***************************************************************************)
\* Mutant of WalkNum: the branches are exchanged.
RECURSIVE WalkNumSwap(_, _, _, _)
WalkNumSwap(d, tc, row, idx) ==
  LET tOrig == d.treeOriginForest[tc]
      bump == d.bumpForest[tOrig + idx]
      pred == d.predForest[tOrig + idx]
  IN  IF bump = 0 THEN idx
      ELSE WalkNumSwap(d, tc, row,
             idx + (IF xObs[row][pred] <= d.numForest[tOrig + idx]
                    THEN bump + 1 ELSE bump))

\* Mutant of WalkNum: the right-hand branch also adds bump alone.
RECURSIVE WalkNumNoInc(_, _, _, _)
WalkNumNoInc(d, tc, row, idx) ==
  LET tOrig == d.treeOriginForest[tc]
      bump == d.bumpForest[tOrig + idx]
  IN  IF bump = 0 THEN idx
      ELSE WalkNumNoInc(d, tc, row, idx + bump)

\* The while loop of PredictRowNumReg and PredictRowNumCtg.
RECURSIVE WalkNum(_, _, _, _)
WalkNum(d, tc, row, idx) ==
  LET tOrig == d.treeOriginForest[tc]
      bump == d.bumpForest[tOrig + idx]
      pred == d.predForest[tOrig + idx]
  IN  IF bump = 0 THEN idx
      ELSE WalkNum(d, tc, row,
             idx + (IF xObs[row][pred] <= d.numForest[tOrig + idx]
                    THEN bump ELSE bump + 1))

\* Mutant of WalkFac: the factor offset of the tree is left out.
RECURSIVE WalkFacNoTreeOff(_, _, _, _)
WalkFacNoTreeOff(d, tc, row, idx) ==
  LET tOrig == d.treeOriginForest[tc]
      bump == d.bumpForest[tOrig + idx]
      pred == d.predForest[tOrig + idx]
      facOff == d.numForest[tOrig + idx]
      facId == FacIdx(pred)
  IN  IF bump = 0 THEN idx
      ELSE WalkFacNoTreeOff(d, tc, row,
             idx + (IF d.facSplitForest[facOff + xObs[row][predictor.nPredNum + facId]] # 0
                    THEN bump ELSE bump + 1))

\* The while loop of PredictRowFacReg and PredictRowFacCtg.
RECURSIVE WalkFac(_, _, _, _)
WalkFac(d, tc, row, idx) ==
  LET tOrig == d.treeOriginForest[tc]
      bump == d.bumpForest[tOrig + idx]
      pred == d.predForest[tOrig + idx]
      facOff == d.numForest[tOrig + idx]
      facId == FacIdx(pred)
  IN  IF bump = 0 THEN idx
      ELSE WalkFac(d, tc, row,
             idx + (IF d.facSplitForest[d.facOffForest[tc] + facOff
                                        + xObs[row][predictor.nPredNum + facId]] # 0
                    THEN bump ELSE bump + 1))

\* The while loop of PredictRowMixedReg and PredictRowMixedCtg.
RECURSIVE WalkMixed(_, _, _, _)
WalkMixed(d, tc, row, idx) ==
  LET tOrig == d.treeOriginForest[tc]
      bump == d.bumpForest[tOrig + idx]
      pred == d.predForest[tOrig + idx]
      facId == FacIdx(pred)
  IN  IF bump = 0 THEN idx
      ELSE WalkMixed(d, tc, row,
             idx + (IF facId < 0
                    THEN (IF xObs[row][pred] <= d.numForest[tOrig + idx]
                          THEN bump ELSE bump + 1)
                    ELSE (IF d.facSplitForest[d.facOffForest[tc] + d.numForest[tOrig + idx]
                                              + xObs[row][predictor.nPredNum + facId]] # 0
                          THEN bump ELSE bump + 1)))

\* Mutant of PredictRowNumReg: the bag is consulted whatever useBag is.
PredictRowNumRegAlwaysBag(d, row, useBag) ==
  [tc \in 0 .. (d.nTree - 1) |->
     IF InBag(d, tc, row) THEN -1 ELSE WalkNum(d, tc, row, 0)]

\* DecTree::PredictRowNumReg: the leaves of the row, by tree.
PredictRowNumReg(d, row, useBag) ==
  [tc \in 0 .. (d.nTree - 1) |->
     IF useBag /\ InBag(d, tc, row) THEN -1 ELSE WalkNum(d, tc, row, 0)]

\* DecTree::PredictRowFacReg.
PredictRowFacReg(d, row, useBag) ==
  [tc \in 0 .. (d.nTree - 1) |->
     IF useBag /\ InBag(d, tc, row) THEN -1 ELSE WalkFac(d, tc, row, 0)]

\* DecTree::PredictRowMixedReg.
PredictRowMixedReg(d, row, useBag) ==
  [tc \in 0 .. (d.nTree - 1) |->
     IF useBag /\ InBag(d, tc, row) THEN -1 ELSE WalkMixed(d, tc, row, 0)]

\* The loop over the trees of a classification walker from tree tc on: a
\* tree the row is in-bag for is passed over under useBag, any other adds
\* one to prd at the category vote[tc] of the leaf reached.
RECURSIVE CensusLoop(_, _, _, _, _, _)
CensusLoop(d, row, useBag, vote, tc, prd) ==
  IF tc >= d.nTree THEN prd
  ELSE IF useBag /\ InBag(d, tc, row)
       THEN CensusLoop(d, row, useBag, vote, tc + 1, prd)
       ELSE CensusLoop(d, row, useBag, vote, tc + 1,
                       [prd EXCEPT ![vote[tc]] = @ + 1])

\* A variant of Census in which no tree is passed over.
CensusNoSkip(d, row, useBag, vote) ==
  CensusLoop(d, row, FALSE, vote, 0, [ctg \in 0 .. (ctgWidth - 1) |-> 0])

\* The census of a row whose votes are the categories vote[tc] of the trees
\* not skipped, the census being zero before.
Census(d, row, useBag, vote) ==
  CensusLoop(d, row, useBag, vote, 0, [ctg \in 0 .. (ctgWidth - 1) |-> 0])

\* DecTree::PredictRowNumCtg: the votes the row adds to its census.
PredictRowNumCtg(d, row, useBag) ==
  Census(d, row, useBag,
         [tc \in 0 .. (d.nTree - 1) |->
            d.numForest[d.treeOriginForest[tc] + WalkNum(d, tc, row, 0)]])

\* DecTree::PredictRowFacCtg.
PredictRowFacCtg(d, row, useBag) ==
  Census(d, row, useBag,
         [tc \in 0 .. (d.nTree - 1) |->
            d.numForest[d.treeOriginForest[tc] + WalkFac(d, tc, row, 0)]])

\* DecTree::PredictRowMixedCtg.
PredictRowMixedCtg(d, row, useBag) ==
  Census(d, row, useBag,
         [tc \in 0 .. (d.nTree - 1) |->
            d.numForest[d.treeOriginForest[tc] + WalkMixed(d, tc, row, 0)]])

\* Mutant of RowScore: every tree counts in treesSeen.
RowScoreAllSeen(d, leaves) ==
  LET seen == { tc \in 0 .. (d.nTree - 1) : leaves[tc] >= 0 }
  IN  [score |-> SumOver(seen, [tc \in seen |->
                                  d.numForest[d.treeOriginForest[tc] + leaves[tc]]]),
       treesSeen |-> d.nTree]

\* The aggregation loop of PredictAcrossNumReg, FacReg and MixedReg: the
\* quotient score / treesSeen is kept as its two terms.
RowScore(d, leaves) ==
  LET seen == { tc \in 0 .. (d.nTree - 1) : leaves[tc] >= 0 }
  IN  [score |-> SumOver(seen, [tc \in seen |->
                                  d.numForest[d.treeOriginForest[tc] + leaves[tc]]]),
       treesSeen |-> Cardinality(seen)]

\* DecTree::PredictAcrossReg with the three drivers it dispatches to: the
\* leaves and the prediction of every row.
PredictAcrossReg(d, useBag) ==
  LET leaves == [row \in Rows |->
                   IF predictor.nPredFac = 0 THEN PredictRowNumReg(d, row, useBag)
                   ELSE IF predictor.nPredNum = 0 THEN PredictRowFacReg(d, row, useBag)
                   ELSE PredictRowMixedReg(d, row, useBag)]
  IN  [predictLeaves |-> leaves,
       prediction |-> [row \in Rows |-> RowScore(d, leaves[row])]]

\* DecTree::PredictAcrossCtg with the three drivers it dispatches to: the
\* census of every row.
PredictAcrossCtg(d, useBag) ==
  [row \in Rows |->
     IF predictor.nPredFac = 0 THEN PredictRowNumCtg(d, row, useBag)
     ELSE IF predictor.nPredNum = 0 THEN PredictRowFacCtg(d, row, useBag)
     ELSE PredictRowMixedCtg(d, row, useBag)]

\* The state of the groups of variables a specification leaves alone.
IdleSS ==
  /\ nPred = 0 /\ splitCount = 0 /\ levelSS = NullArr
  /\ ssWritten = {} /\ ssStale = FALSE /\ ssArg = NoCall /\ ssHist = << >>

IdleObs ==
  /\ predictor = [nPredNum |-> 0, nPredFac |-> 0, maxFacCard |-> 0]
  /\ ctgWidth = 0 /\ xObs = << >>

IdlePT == heightEst = 0 /\ pt = NullArr /\ ptOut = NoCall /\ lastCS = NoCall

IdleTR == buf = << >> /\ frontier = {} /\ lastNT = NoCall

IdleH == hPc = "idle" /\ twoLBit = 0 /\ hCall = NoCall

IdleDT == ptBlock = << >> /\ ptDone = << >> /\ dt = NullArr /\ predOut = NoCall /\ bagSet = << >>

InitSS ==
  /\ IdleH
  /\ IdleObs /\ IdlePT /\ IdleTR /\ IdleDT
  /\ nPred \in 1 .. MaxSlots
  /\ splitCount = 0
  /\ levelSS = NullArr
  /\ ssWritten = {}
  /\ ssStale = FALSE
  /\ ssArg = NoCall
  /\ ssHist = << >>

NextSS ==
  \/ \E sc \in 1 .. MaxSlots :
       nPred * sc <= MaxSlots /\ LevelInit(sc) /\ UNCHANGED <<obsVars, hVars, ptVars, trVars, dtVars>>
  \/ LevelClear /\ UNCHANGED <<obsVars, hVars, ptVars, trVars, dtVars>>
  \/ \E n \in 0 .. (splitCount - 1), p \in 0 .. (nPred - 1), i \in InfoVals :
       /\ Write(n, p, SSPayload(p).setIdx, SSPayload(p).sCount, SSPayload(p).lhIdxCount, i)
       /\ UNCHANGED <<obsVars, hVars, ptVars, trVars, dtVars>>
  \/ \E n \in 0 .. (splitCount - 1), g \in GainVals :
       ArgMaxCall(n, g) /\ UNCHANGED <<obsVars, hVars, ptVars, trVars, dtVars>>

SpecSS == InitSS /\ [][NextSS]_vars

\* Slots of split node n, one per predictor.
SlotsOf(n) == { p * splitCount + n : p \in 0 .. (nPred - 1) }

\* C1: ArgMax(n, threshold) returns a slot of node n whose info is the
\* maximum over the node's nPred slots and is strictly greater than the
\* threshold; it returns null exactly when no slot of node n has info
\* strictly greater than the threshold.
C1_ArgMaxIsMaxAboveThreshold ==
  ssArg # NoCall =>
    LET above == { s \in SlotsOf(ssArg.levelIdx) : levelSS[s].info > ssArg.gainMax }
    IN  /\ (ssArg.res = NullSlot) <=> (above = {})
        /\ ssArg.res # NullSlot =>
             /\ ssArg.res \in above
             /\ \A s \in SlotsOf(ssArg.levelIdx) :
                  levelSS[s].info <= levelSS[ssArg.res].info

\* Witness of C1: with two predictors, ArgMax returned the second
\* predictor's slot, which beats a written first slot.
C1_Witness ==
  /\ ssArg # NoCall /\ ssArg.res # NullSlot
  /\ nPred >= 2
  /\ ssArg.res = splitCount + ssArg.levelIdx
  /\ ssArg.levelIdx \in ssWritten
  /\ levelSS[ssArg.res].info > levelSS[ssArg.levelIdx].info

\* C2: when several predictors' slots of the same split node carry the
\* same maximal info above the threshold, ArgMax returns the slot of the
\* lowest predictor index among them.
C2_TieLowestPredictor ==
  (ssArg # NoCall /\ ssArg.res # NullSlot) =>
    \A s \in SlotsOf(ssArg.levelIdx) :
      levelSS[s].info = levelSS[ssArg.res].info => ssArg.res <= s

\* Witness of C2: two written slots of the node tie at the maximum and the
\* first predictor's slot is returned.
C2_Witness ==
  /\ ssArg # NoCall /\ nPred >= 2
  /\ ssArg.res = ssArg.levelIdx
  /\ {ssArg.levelIdx, splitCount + ssArg.levelIdx} \subseteq ssWritten
  /\ levelSS[ssArg.levelIdx].info = levelSS[splitCount + ssArg.levelIdx].info

\* C3: a slot that Write has not written since the level's LevelInit is
\* never returned by ArgMax, for any finite threshold; a value written in
\* an earlier level does not survive LevelClear and LevelInit.
C3_UnwrittenNeverWins ==
  /\ (ssArg # NoCall /\ ssArg.res # NullSlot) => ssArg.res \in ssWritten
  /\ levelSS # NullArr =>
       \A s \in DOMAIN levelSS : s \notin ssWritten => levelSS[s].info = NegDblMax

\* Witness of C3: slot 0 was written in an earlier level and is unwritten
\* in this one; ArgMax on node 0 with a threshold below every info a
\* search writes returns the null pointer.
C3_Witness ==
  /\ ssStale /\ ssArg # NoCall
  /\ ssArg.levelIdx = 0 /\ ssArg.gainMax = -1
  /\ ssWritten = {}
  /\ ssArg.res = NullSlot

(***************************************************************************)
(* Direct calls on one PreTree, in any order.                              *)
(***************************************************************************)
\* Splits passed to PreTree::NonTerminal: predictor k with splitting value
\* 2k + 1 and information k + 1.
RawSplits == { [predIdx |-> k, splitVal |-> 2 * k + 1, info |-> k + 1] : k \in 0 .. MaxVal }

\* A call of TerminalOffspring on an existing node, the two new nodes
\* within the capacity that CheckStorage has left.
RawTerminalOffspring(parId) ==
  /\ ptOut = NoCall
  /\ pt.treeHeight + 2 <= pt.nodeCount
  /\ pt.treeHeight + 2 <= MaxHeight
  /\ pt' = TerminalOffspring(pt, parId)
  /\ lastCS' = NoCall
  /\ UNCHANGED <<heightEst, ptOut>>

\* A call of NonTerminal on an existing node.
RawNonTerminal(id, info, splitVal, predIdx) ==
  /\ ptOut = NoCall
  /\ pt.leafCount > 0
  /\ pt' = NonTerminal(pt, id, info, splitVal, predIdx)
  /\ lastCS' = NoCall
  /\ UNCHANGED <<heightEst, ptOut>>

\* A call of CheckStorage.
RawCheckStorage(splitNext, leafNext) ==
  /\ ptOut = NoCall
  /\ pt' = CheckStorage(pt, splitNext, leafNext)
  /\ lastCS' = [splitNext |-> splitNext, leafNext |-> leafNext, before |-> pt]
  /\ UNCHANGED <<heightEst, ptOut>>

\* A call of ConsumeNodes, after which the PreTree is not grown further.
RawConsumeNodes ==
  /\ ptOut = NoCall
  /\ ptOut' = ConsumeNodes(pt)
  /\ lastCS' = NoCall
  /\ UNCHANGED <<heightEst, pt>>

InitRaw ==
  /\ IdleH
  /\ IdleSS /\ IdleTR /\ IdleDT
  /\ predictor \in { [nPredNum |-> 1, nPredFac |-> f, maxFacCard |-> 2 * f] : f \in 0 .. 1 }
  /\ ctgWidth = 0
  /\ xObs = [r \in {0} |-> [q \in 0 .. (NPredAll - 1) |-> 0]]
  /\ \E nSamp \in 1 .. MaxRow, minH \in 1 .. MaxRow :
        heightEst = ImmutablesHeightEst(nSamp, minH)
  /\ pt = PreTreeNew(heightEst, {0})
  /\ ptOut = NoCall /\ lastCS = NoCall

NextRaw ==
  \/ \E parId \in 0 .. (pt.treeHeight - 1) :
       RawTerminalOffspring(parId) /\ UNCHANGED <<ssVars, obsVars, hVars, trVars, dtVars>>
  \/ \E id \in 0 .. (pt.treeHeight - 1), sp \in RawSplits :
       /\ RawNonTerminal(id, sp.info, sp.splitVal, sp.predIdx)
       /\ UNCHANGED <<ssVars, obsVars, hVars, trVars, dtVars>>
  \/ \E sn \in 0 .. 2, ln \in 0 .. 2 :
       RawCheckStorage(sn, ln) /\ UNCHANGED <<ssVars, obsVars, hVars, trVars, dtVars>>
  \/ RawConsumeNodes /\ UNCHANGED <<ssVars, obsVars, hVars, trVars, dtVars>>

SpecRaw == InitRaw /\ [][NextRaw]_vars

\* Indices of the nodes of the pre-tree, and of its nonterminals.
PtNodes == 0 .. (pt.treeHeight - 1)
PtNonTerminals == { i \in PtNodes : pt.nodeVec[i].lhId # NoLh }

\* C5: for a tree grown by any sequence of TerminalOffspring and
\* NonTerminal calls and then consumed, a packed node has lhBump = 0 if and
\* only if its pre-tree node is terminal (lhId = -1), and every nonterminal
\* has lhBump >= 1.
C5_BumpZeroIffTerminal ==
  ptOut # NoCall =>
    \A i \in PtNodes :
      /\ (ptOut.bump[i] = 0) <=> (pt.nodeVec[i].lhId = NoLh)
      /\ pt.nodeVec[i].lhId # NoLh => ptOut.bump[i] >= 1

\* Witness of C5: a consumed tree of five nodes whose root and one child
\* are nonterminal.
C5_Witness ==
  /\ ptOut # NoCall /\ pt.treeHeight = 5
  /\ ptOut.bump[0] = 1
  /\ \E i \in 1 .. 2 : ptOut.bump[i] >= 2
  /\ ptOut.bump[4] = 0

\* C6: after any sequence of TerminalOffspring calls every node's id is its
\* index; every node with lhId # -1 has parent.id < lhId < rhId = lhId + 1,
\* both children being nodes of the tree; and no node is the child of two
\* different parents.
C6_ChildrenAdjacentAndUnique ==
  /\ \A i \in PtNodes : pt.nodeVec[i].id = i
  /\ \A i \in PtNonTerminals :
       /\ pt.nodeVec[i].id < pt.nodeVec[i].lhId
       /\ pt.nodeVec[i].lhId + 1 \in PtNodes
  /\ \A i, j \in PtNonTerminals :
       i # j => {pt.nodeVec[i].lhId, pt.nodeVec[i].lhId + 1}
                  \cap {pt.nodeVec[j].lhId, pt.nodeVec[j].lhId + 1} = {}

\* Witness of C6: two nonterminals, the second one a child of the first.
C6_Witness ==
  /\ pt.treeHeight = 5
  /\ pt.nodeVec[0].lhId = 1
  /\ pt.nodeVec[2].lhId = 3

(***************************************************************************)
(* Training of one tree.  The level loop and the split search are missing  *)
(* from the sources (from the specification, sections 4.D, 4.E and 6): a   *)
(* search yields, for a splitable node, a signature whose left-hand side   *)
(* and right-hand side are both nonempty; a numeric cut lies between two   *)
(* distinct ranks.                                                         *)
(***************************************************************************)
\* The samples at the positions start .. end of the buffer of predictor p.
ExtentSamples(b, p, start, end) == { b[p][i] : i \in start .. end }

\* The split signatures a search can yield for a node, each with the runs
\* of its left-hand side (none for a numeric split).
Candidates(ptree, b, node) ==
  UNION { IF FacIdx(p) < 0
          THEN { [ssn |-> [setIdx |-> -1, predIdx |-> p, info |-> 1,
                           lhIdxCount |-> c,
                           sCount |-> CountOfSamples(ptree,
                                        ExtentSamples(b, p, node.start, node.start + c - 1))],
                  lhRuns |-> << >>]
                 : c \in { k \in 1 .. (node.end - node.start) :
                             Rank(p, ptree.sample[b[p][node.start + k - 1]])
                               < Rank(p, ptree.sample[b[p][node.start + k]]) } }
          ELSE { [ssn |-> [setIdx |-> 0, predIdx |-> p, info |-> 1,
                           lhIdxCount |-> SumOver(DOMAIN q,
                                            [i \in DOMAIN q |-> q[i].end - q[i].start + 1]),
                           sCount |-> CountOfSamples(ptree,
                                        UNION { ExtentSamples(b, p, q[i].start, q[i].end)
                                                : i \in DOMAIN q })],
                  lhRuns |-> q]
                 : q \in LhRunChoices(RunsOf(ptree, b, p, node.start, node.end)) }
          : p \in 0 .. (NPredAll - 1) }

\* One split of the level loop: room is made, the signature is applied to
\* the node, the extent is restaged and the offspring become splitable.
SplitNode(ptree, b, front, node, cand) ==
  LET res == SSNodeNonTerminal(cand.ssn, cand.lhRuns, CheckStorage(ptree, 1, 2), b,
                               node.start, node.end, node.ptId)
  IN  [pt |-> res.pt,
       buf |-> Restage(res.pt, b, node.start, node.end, res.ptLH),
       frontier |-> (front \ {node}) \cup
                      { [ptId |-> res.ptLH, start |-> node.start,
                         end |-> node.start + cand.ssn.lhIdxCount - 1],
                        [ptId |-> res.ptRH, start |-> node.start + cand.ssn.lhIdxCount,
                         end |-> node.end] },
       res |-> res]

\* The state of a tree about to be trained on the bagged rows.
TreeStart(bagRows) ==
  LET p == PreTreeNew(heightEst, bagRows)
  IN  [pt |-> p,
       buf |-> [q \in 0 .. (NPredAll - 1) |-> Stage(p, q)],
       frontier |-> { [ptId |-> 0, start |-> 0, end |-> p.bagCount - 1] }]

\* A split of a splitable node by a signature of the search.
TrainSplit(node, cand) ==
  LET st == SplitNode(pt, buf, frontier, node, cand)
  IN  /\ pt # NullArr
      /\ pt' = st.pt
      /\ buf' = st.buf
      /\ frontier' = st.frontier
      /\ lastNT' = [ssn |-> cand.ssn, lhRuns |-> cand.lhRuns, ptId |-> node.ptId,
                    start |-> node.start, end |-> node.end,
                    extent |-> ExtentSamples(buf, cand.ssn.predIdx, node.start, node.end),
                    ptLH |-> st.res.ptLH, ptRH |-> st.res.ptRH,
                    lhSum |-> st.res.lhSum, replays |-> st.res.replays]
      /\ UNCHANGED <<heightEst, ptOut, lastCS, dtVars>>

\* The end of the level loop: the tree joins the block to be consumed.
TrainFinish ==
  /\ pt # NullArr
  /\ ptBlock' = Append(ptBlock, pt)
  /\ pt' = NullArr /\ buf' = << >> /\ frontier' = {} /\ lastNT' = NoCall
  /\ UNCHANGED <<heightEst, ptOut, lastCS, ptDone, dt, predOut, bagSet>>

(***************************************************************************)
(* The operations of DecTree as actions                                    *)
(***************************************************************************)
\* DecTree::BlockConsume of the block of finished trees.
DTBlockConsume ==
  /\ ptBlock # << >>
  /\ dt' = BlockConsume(dt, ptBlock, Len(ptBlock), Len(ptDone), 0, 0).dt
  /\ ptDone' = ptDone \o ptBlock
  /\ ptBlock' = << >>
  /\ UNCHANGED <<ptVars, trVars, predOut, bagSet>>

\* DecTree::ConsumeTrees, once every tree has been consumed.
DTConsumeTrees ==
  /\ dt.predForest = NullArr
  /\ dt.nTree = Len(ptDone)
  /\ dt' = ConsumeTrees(dt).dt
  /\ UNCHANGED <<ptVars, trVars, ptBlock, ptDone, predOut, bagSet>>

\* DecTree::DeFactoryPredict: the addresses of the forest are reset.
DeFactoryPredict(d) ==
  [d EXCEPT !.bumpForest = NullArr, !.predForest = NullArr, !.numForest = NullArr,
            !.facSplitForest = NullArr, !.facOffForest = NullArr,
            !.forestSize = -1, !.nTree = -1]

\* DecTree::PredictAcrossReg: the leaves and predictions and, out of bag,
\* the terms of the squared error summed over all rows (each the square of
\* score / treesSeen - y, as numerator and denominator).
DTPredictReg(useBag) ==
  LET out == PredictAcrossReg(dt, useBag)
  IN  /\ ctgWidth = 0
      /\ dt.predForest # NullArr
      /\ predOut' = [useBag |-> useBag, nTree |-> dt.nTree,
                     predictLeaves |-> out.predictLeaves,
                     prediction |-> out.prediction,
                     sse |-> IF useBag
                             THEN [row \in Rows |->
                                     [num |-> (out.prediction[row].score
                                               - out.prediction[row].treesSeen * RowY(row))
                                              * (out.prediction[row].score
                                                 - out.prediction[row].treesSeen * RowY(row)),
                                      den |-> out.prediction[row].treesSeen
                                              * out.prediction[row].treesSeen]]
                             ELSE NullArr,
                     census |-> NullArr]
      /\ dt' = IF useBag THEN dt ELSE DeFactoryPredict(dt)
      /\ UNCHANGED <<ptVars, trVars, ptBlock, ptDone, bagSet>>

\* Mutant of VoteLoop: a category also wins with a count equal to popMax.
RECURSIVE VoteLoopGeq(_, _, _, _)
VoteLoopGeq(censusRow, ctg, argMax, popMax) ==
  IF ctg >= ctgWidth THEN argMax
  ELSE IF censusRow[ctg] >= popMax
       THEN VoteLoopGeq(censusRow, ctg + 1, ctg, censusRow[ctg])
       ELSE VoteLoopGeq(censusRow, ctg + 1, argMax, popMax)

\* The loop of DecTree::Vote over the categories of a row, from ctg on.
RECURSIVE VoteLoop(_, _, _, _)
VoteLoop(censusRow, ctg, argMax, popMax) ==
  IF ctg >= ctgWidth THEN argMax
  ELSE IF censusRow[ctg] > popMax
       THEN VoteLoop(censusRow, ctg + 1, ctg, censusRow[ctg])
       ELSE VoteLoop(censusRow, ctg + 1, argMax, popMax)

\* The category Vote elects from the census of a row: argMax = -1 and
\* popMax = 0.0 before the loop.
VoteArgMax(censusRow) == VoteLoop(censusRow, 0, -1, 0)

\* DecTree::PredictCtg: the census and the vote.  The confusion matrix is
\* zero before the call and yCtg holds the training response; an error
\* quotient is kept as its two terms.
DTPredictCtg(useBag) ==
  LET census == PredictAcrossCtg(dt, useBag)
      argMax == [row \in Rows |-> VoteArgMax(census[row])]
      confusion == [k \in 0 .. (ctgWidth * ctgWidth - 1) |->
                      IF useBag
                      THEN Cardinality({ row \in Rows :
                                           /\ argMax[row] >= 0
                                           /\ RowCtg(row) + ctgWidth * argMax[row] = k })
                      ELSE 0]
      numWrong == [rsp \in 0 .. (ctgWidth - 1) |->
                     SumOver((0 .. (ctgWidth - 1)) \ {rsp},
                             [predicted \in 0 .. (ctgWidth - 1) |->
                                confusion[rsp + ctgWidth * predicted]])]
  IN  /\ ctgWidth > 0
      /\ dt.predForest # NullArr
      /\ predOut' = [useBag |-> useBag, nTree |-> dt.nTree,
                     predictLeaves |-> NullArr, prediction |-> NullArr, sse |-> NullArr,
                     census |-> census,
                     yCtg |-> [row \in Rows |->
                                 IF useBag \/ argMax[row] < 0 THEN RowCtg(row)
                                 ELSE argMax[row]],
                     confusion |-> confusion,
                     error |-> IF useBag
                               THEN [rsp \in 0 .. (ctgWidth - 1) |->
                                       [numWrong |-> numWrong[rsp],
                                        total |-> numWrong[rsp]
                                                  + confusion[rsp + ctgWidth * rsp]]]
                               ELSE NullArr]
      /\ dt' = IF useBag THEN dt ELSE DeFactoryPredict(dt)
      /\ UNCHANGED <<ptVars, trVars, ptBlock, ptDone, bagSet>>

(***************************************************************************)
(* Specification of the training of one tree, its consumption and the     *)
(* prediction of the rows                                                  *)
(***************************************************************************)
\* The predictor frames: two numeric predictors, one factor, or one of each.
FramesNum ==
  { [r \in 0 .. (MaxRow - 1) |->
       [q \in 0 .. 1 |-> IF q = 0 THEN v[r] ELSE 2 * ((MaxRow - 1 - r) % (MaxVal + 1))]]
    : v \in [0 .. (MaxRow - 1) -> NumVals] }

FramesFac ==
  { [r \in 0 .. (MaxRow - 1) |-> [q \in 0 .. 0 |-> f[r]]]
    : f \in [0 .. (MaxRow - 1) -> 0 .. (MaxCard - 1)] }

FramesMixed ==
  { [r \in 0 .. (MaxRow - 1) |-> [q \in 0 .. 1 |-> IF q = 0 THEN v[r] ELSE r % MaxCard]]
    : v \in [0 .. (MaxRow - 1) -> NumVals] }

InitFrame ==
  \/ predictor = [nPredNum |-> 2, nPredFac |-> 0, maxFacCard |-> 0] /\ xObs \in FramesNum
  \/ predictor = [nPredNum |-> 0, nPredFac |-> 1, maxFacCard |-> MaxCard] /\ xObs \in FramesFac
  \/ predictor = [nPredNum |-> 1, nPredFac |-> 1, maxFacCard |-> MaxCard] /\ xObs \in FramesMixed

InitTrain ==
  /\ IdleH
  /\ IdleSS
  /\ InitFrame
  /\ ctgWidth = 0
  /\ heightEst = ImmutablesHeightEst(MaxRow, MaxRow)
  /\ \E bagRows \in (SUBSET Rows) \ {{}} :
       /\ pt = TreeStart(bagRows).pt
       /\ buf = TreeStart(bagRows).buf
       /\ frontier = TreeStart(bagRows).frontier
  /\ lastNT = NoCall /\ ptOut = NoCall /\ lastCS = NoCall
  /\ ptBlock = << >> /\ ptDone = << >> /\ predOut = NoCall /\ bagSet = << >>
  /\ dt = FactoryTrain(1)

NextTrain ==
  \/ \E node \in frontier : \E cand \in Candidates(pt, buf, node) :
       TrainSplit(node, cand) /\ UNCHANGED <<ssVars, obsVars, hVars>>
  \/ TrainFinish /\ UNCHANGED <<ssVars, obsVars, hVars>>
  \/ DTBlockConsume /\ UNCHANGED <<ssVars, obsVars, hVars>>
  \/ DTConsumeTrees /\ UNCHANGED <<ssVars, obsVars, hVars>>
  \/ \E useBag \in BOOLEAN : DTPredictReg(useBag) /\ UNCHANGED <<ssVars, obsVars, hVars>>

SpecTrain == InitTrain /\ [][NextTrain]_vars

\* The tree of the training specification, once consumed.
TreeDone == ptDone[1]

\* The samples a pre-tree maps to node i.
SamplesAt(p, i) == { s \in DOMAIN p.sample2PT : p.sample2PT[s] = i }

\* C4: ConsumeNodes writes, for every pre-tree index i below treeHeight,
\* (pred[i], num[i], bump[i]) = (predIdx, splitVal, lhId - id) if node i is
\* nonterminal, and bump[i] = 0 with num[i] the leaf score (the mean
\* response of the samples of the leaf) if node i is a leaf.  Read in the
\* state between BlockConsume and ConsumeTrees, where the vectors of the
\* tree hold what ConsumeNodes wrote.
C4_ConsumeNodesTriples ==
  (Len(ptDone) = 1 /\ dt.nTree = 1 /\ dt.predForest = NullArr) =>
    \A i \in 0 .. (TreeDone.treeHeight - 1) :
      IF TreeDone.nodeVec[i].lhId # NoLh
      THEN /\ dt.predTree[0][i] = TreeDone.nodeVec[i].predIdx
           /\ dt.splitTree[0][i] = TreeDone.nodeVec[i].splitVal
           /\ dt.bumpTree[0][i] = TreeDone.nodeVec[i].lhId - TreeDone.nodeVec[i].id
      ELSE /\ dt.bumpTree[0][i] = 0
           /\ dt.splitTree[0][i] =
                SumOfSamples(TreeDone, SamplesAt(TreeDone, i))
                  \div CountOfSamples(TreeDone, SamplesAt(TreeDone, i))

\* A tree of five nodes, one of its nonterminals not the root, consumed.
C4_Witness ==
  /\ Len(ptDone) = 1 /\ dt.nTree = 1 /\ dt.predForest = NullArr
  /\ TreeDone.treeHeight >= 5
  /\ \E i \in 1 .. (TreeDone.treeHeight - 1) :
       TreeDone.nodeVec[i].lhId # NoLh /\ dt.bumpTree[0][i] >= 1
  /\ \E i \in 1 .. (TreeDone.treeHeight - 1) :
       dt.bumpTree[0][i] = 0 /\ dt.splitTree[0][i] > 1

\* C7: round trip.  For a tree built by numeric splits and consumed into
\* the packed vectors, the walk of the packed tree with an in-bag row ends
\* at the leaf whose index is the pre-tree node that sample2PT records for
\* the sample of that row.
C7_RoundTrip ==
  (predOut # NoCall /\ ~predOut.useBag /\ predictor.nPredFac = 0) =>
    \A s \in DOMAIN TreeDone.sample :
      predOut.predictLeaves[TreeDone.sample[s]][0] = TreeDone.sample2PT[s]

\* Three in-bag rows walked to three distinct leaves of a tree of two
\* numeric splits.
C7_Witness ==
  /\ predOut # NoCall /\ ~predOut.useBag /\ predictor.nPredFac = 0
  /\ TreeDone.treeHeight >= 5
  /\ Cardinality({ predOut.predictLeaves[TreeDone.sample[s]][0]
                   : s \in DOMAIN TreeDone.sample }) >= 3

\* C8: the positions that NonTerminalNum replays to the left-hand child,
\* start .. start + lhIdxCount - 1, and to the right-hand child,
\* start + lhIdxCount .. end, are disjoint, cover the extent of the node
\* and are each nonempty.
C8_NumExtentsPartition ==
  (lastNT # NoCall /\ lastNT.ssn.setIdx < 0) =>
    LET lh == lastNT.replays[1][1] .. lastNT.replays[1][2]
        rh == lastNT.replays[2][1] .. lastNT.replays[2][2]
    IN  /\ Len(lastNT.replays) = 2
        /\ lastNT.replays[1][3] = lastNT.ptLH /\ lastNT.replays[2][3] = lastNT.ptRH
        /\ lh = lastNT.start .. (lastNT.start + lastNT.ssn.lhIdxCount - 1)
        /\ rh = (lastNT.start + lastNT.ssn.lhIdxCount) .. lastNT.end
        /\ lh \cap rh = {}
        /\ lh \cup rh = lastNT.start .. lastNT.end
        /\ lh # {} /\ rh # {}
        /\ Cardinality(lh) + Cardinality(rh) = lastNT.end - lastNT.start + 1

\* A numeric split of a node other than the root, two positions to one side.
C8_Witness ==
  /\ lastNT # NoCall /\ lastNT.ssn.setIdx < 0
  /\ lastNT.ptId > 0
  /\ lastNT.end - lastNT.start >= 1

\* The factor levels of the left-hand runs of the last split.
LhLevels == { lastNT.lhRuns[i].rank : i \in DOMAIN lastNT.lhRuns }

\* The samples of the extent of the last split whose level is a left-hand one.
LhSamples ==
  { s \in lastNT.extent : xObs[pt.sample[s]][lastNT.ssn.predIdx] \in LhLevels }

\* C9: after NonTerminalRun on a node, every sample of a left-hand run maps
\* to ptLH and every other sample of the extent to ptRH; the bits set in
\* the slot of the node in the split bitmap are exactly those of the
\* levels of the left-hand runs; the sum returned is the response sum of
\* the left-hand samples.
C9_RunSplitEffects ==
  (lastNT # NoCall /\ lastNT.ssn.setIdx >= 0) =>
    /\ \A s \in lastNT.extent :
         pt.sample2PT[s] = IF s \in LhSamples THEN lastNT.ptLH ELSE lastNT.ptRH
    /\ \A level \in 0 .. (predictor.maxFacCard - 1) :
         pt.treeSplitBits[pt.nodeVec[lastNT.ptId].splitVal + level]
           = (level \in LhLevels)
    /\ lastNT.lhSum = SumOfSamples(pt, LhSamples)

\* A run split with two left-hand runs and a right-hand side of its own.
C9_Witness ==
  /\ lastNT # NoCall /\ lastNT.ssn.setIdx >= 0
  /\ Cardinality(LhLevels) >= 2
  /\ LhSamples # {} /\ LhSamples # lastNT.extent
  /\ lastNT.lhSum > 0

(***************************************************************************)
(* Specification of the training of a forest and of its prediction: the   *)
(* trees are grown whole, on one predictor frame of each kind.             *)
(***************************************************************************)
\* The level loop run for at most k splits: each time the splitable node
\* of least index that a search can split, by a signature of the search.
RECURSIVE Grow(_, _, _, _)
Grow(ptree, b, front, k) ==
  LET open == { n \in front : Candidates(ptree, b, n) # {} }
      node == CHOOSE n \in open : \A m \in open : n.ptId <= m.ptId
      st == SplitNode(ptree, b, front, node,
                      CHOOSE c \in Candidates(ptree, b, node) : TRUE)
  IN  IF k = 0 \/ open = {} THEN ptree
      ELSE Grow(st.pt, st.buf, st.frontier, k - 1)

\* The bags of the forest specification: the first rows or the last rows.
BagIntervals ==
  { 0 .. hi : hi \in Rows } \cup { lo .. (Cardinality(Rows) - 1) : lo \in Rows }

\* The training of one more tree of the forest, of at most k splits.
DTGrow(bagRows, k) ==
  /\ dt.predForest = NullArr
  /\ Len(ptDone) + Len(ptBlock) < dt.nTree
  /\ LET st == TreeStart(bagRows)
     IN  ptBlock' = Append(ptBlock, Grow(st.pt, st.buf, st.frontier, k))
  /\ UNCHANGED <<ptVars, trVars, ptDone, dt, predOut, bagSet>>

InitDT ==
  /\ IdleH
  /\ IdleSS /\ IdleTR
  /\ InitFrame
  /\ \A r \in Rows :
       xObs[r][0] = IF predictor.nPredNum > 0 THEN 2 * (r \div 2) ELSE r % MaxCard
  /\ ctgWidth \in {0, 2}
  /\ heightEst = ImmutablesHeightEst(MaxRow, MaxRow)
  /\ pt = NullArr /\ ptOut = NoCall /\ lastCS = NoCall
  /\ ptBlock = << >> /\ ptDone = << >> /\ predOut = NoCall /\ bagSet = << >>
  /\ \E nTree \in 1 .. MaxTree : dt = FactoryTrain(nTree)

NextDT ==
  \/ \E bagRows \in BagIntervals, k \in {0, MaxRow} :
       DTGrow(bagRows, k) /\ UNCHANGED <<ssVars, obsVars, hVars>>
  \/ DTBlockConsume /\ UNCHANGED <<ssVars, obsVars, hVars>>
  \/ DTConsumeTrees /\ UNCHANGED <<ssVars, obsVars, hVars>>
  \/ \E useBag \in BOOLEAN : DTPredictReg(useBag) /\ UNCHANGED <<ssVars, obsVars, hVars>>
  \/ \E useBag \in BOOLEAN : DTPredictCtg(useBag) /\ UNCHANGED <<ssVars, obsVars, hVars>>

SpecDT == InitDT /\ [][NextDT]_vars

\* The rows in the bag of tree tc of the forest.
BagOf(tc) == { ptDone[tc + 1].sample[s] : s \in DOMAIN ptDone[tc + 1].sample }

\* C10: out of bag (useBag true) a tree is not walked for a row of its
\* bag: the regression walkers give the leaf -1 for that row and tree and
\* the classification walkers add no vote; every other tree, and with
\* useBag false every tree, is walked for the row, to a leaf (regression)
\* or to one vote (classification).
C10_InBagTreesSkipped ==
  predOut # NoCall =>
    \A row \in Rows :
      IF ctgWidth = 0
      THEN \A tc \in 0 .. (predOut.nTree - 1) :
             IF predOut.useBag /\ row \in BagOf(tc)
             THEN predOut.predictLeaves[row][tc] = -1
             ELSE /\ predOut.predictLeaves[row][tc] \in 0 .. (ptDone[tc + 1].treeHeight - 1)
                  /\ ptDone[tc + 1].nodeVec[predOut.predictLeaves[row][tc]].lhId = NoLh
      ELSE SumOver(DOMAIN predOut.census[row], predOut.census[row])
             = Cardinality({ tc \in 0 .. (predOut.nTree - 1) :
                               ~(predOut.useBag /\ row \in BagOf(tc)) })

\* Out of bag, a row in the bag of one tree and not of another, the second
\* tree having split.
C10_Witness ==
  /\ predOut # NoCall /\ predOut.useBag /\ predOut.nTree >= 2
  /\ \E row \in Rows : \E t1, t2 \in 0 .. (predOut.nTree - 1) :
       /\ row \in BagOf(t1) /\ row \notin BagOf(t2)
       /\ ptDone[t2 + 1].treeHeight >= 3

\* The nonterminals of tree tc of the packed forest d are all numeric.
NumericTree(d, tc) ==
  \A j \in 0 .. (d.treeSizes[tc] - 1) :
    d.bumpForest[d.treeOriginForest[tc] + j] # 0
      => FacIdx(d.predForest[d.treeOriginForest[tc] + j]) < 0

\* The index after relative index idx of tree tc for a row, at a numeric
\* nonterminal: idx + lhBump if the row's value of the node's predictor is
\* at most the splitting value, idx + lhBump + 1 otherwise.
NumericStep(d, tc, row, idx) ==
  IF xObs[row][d.predForest[d.treeOriginForest[tc] + idx]]
       <= d.numForest[d.treeOriginForest[tc] + idx]
  THEN idx + d.bumpForest[d.treeOriginForest[tc] + idx]
  ELSE idx + d.bumpForest[d.treeOriginForest[tc] + idx] + 1

\* The node with lhBump = 0 that the numeric steps reach from idx.
RECURSIVE NumericPathEnd(_, _, _, _)
NumericPathEnd(d, tc, row, idx) ==
  IF d.bumpForest[d.treeOriginForest[tc] + idx] = 0 THEN idx
  ELSE NumericPathEnd(d, tc, row, NumericStep(d, tc, row, idx))

\* C11: in a tree whose nonterminals are numeric, the index a regression
\* walker emits for a row it walks is the node with lhBump = 0 reached from
\* relative index 0 by the steps idx + lhBump (value <= splitVal) and
\* idx + lhBump + 1 (otherwise).  Read over every prediction step, the
\* forest being that before the step and the leaves those after it.
C11_NumericWalk ==
  [][(predOut' # predOut /\ ctgWidth = 0) =>
       \A row \in Rows : \A tc \in 0 .. (dt.nTree - 1) :
         (NumericTree(dt, tc) /\ predOut'.predictLeaves[row][tc] # -1) =>
           /\ predOut'.predictLeaves[row][tc] = NumericPathEnd(dt, tc, row, 0)
           /\ dt.bumpForest[dt.treeOriginForest[tc] + predOut'.predictLeaves[row][tc]] = 0]_vars

\* Rows walked to both sides of a second-level numeric split, in the
\* numeric frame and in a second tree of the forest.
C11_Witness ==
  /\ predOut # NoCall /\ ctgWidth = 0 /\ predictor.nPredFac = 0
  /\ predOut.nTree >= 2
  /\ ptDone[2].treeHeight >= 5
  /\ \E r1, r2 \in Rows :
       /\ predOut.predictLeaves[r1][1] >= 3
       /\ predOut.predictLeaves[r2][1] = predOut.predictLeaves[r1][1] + 1

\* The index after relative index idx of tree tc for a row, at a
\* categorical nonterminal: idx + lhBump if the bit of the forest-wide
\* factor bitmap at the tree's factor offset + the node's splitting value +
\* the row's code of the node's predictor is set, idx + lhBump + 1 otherwise.
CategoricalStep(d, tc, row, idx) ==
  IF d.facSplitForest[d.facOffForest[tc] + d.numForest[d.treeOriginForest[tc] + idx]
                      + xObs[row][d.predForest[d.treeOriginForest[tc] + idx]]] # 0
  THEN idx + d.bumpForest[d.treeOriginForest[tc] + idx]
  ELSE idx + d.bumpForest[d.treeOriginForest[tc] + idx] + 1

\* The node with lhBump = 0 reached from idx when a node is categorical
\* exactly if its predictor has a factor index.
RECURSIVE MixedPathEnd(_, _, _, _)
MixedPathEnd(d, tc, row, idx) ==
  IF d.bumpForest[d.treeOriginForest[tc] + idx] = 0 THEN idx
  ELSE IF FacIdx(d.predForest[d.treeOriginForest[tc] + idx]) >= 0
       THEN MixedPathEnd(d, tc, row, CategoricalStep(d, tc, row, idx))
       ELSE MixedPathEnd(d, tc, row, NumericStep(d, tc, row, idx))

\* C12: with factor predictors, the index a regression walker emits for a
\* row it walks is the one reached from relative index 0 when every
\* categorical nonterminal is left by the bit at facOffForest[t] +
\* splitVal + the row's factor code (set: idx + lhBump, clear: idx +
\* lhBump + 1), a node being categorical exactly when FacIdx of its
\* predictor is >= 0.  Read over every prediction step.
C12_CategoricalWalk ==
  [][(predOut' # predOut /\ ctgWidth = 0 /\ predictor.nPredFac > 0) =>
       \A row \in Rows : \A tc \in 0 .. (dt.nTree - 1) :
         predOut'.predictLeaves[row][tc] # -1 =>
           predOut'.predictLeaves[row][tc] = MixedPathEnd(dt, tc, row, 0)]_vars

\* A second tree with a factor split whose bits lie at a positive offset
\* of the forest-wide bitmap, rows walked to both of its sides.
C12_Witness ==
  /\ predOut # NoCall /\ ctgWidth = 0 /\ predictor.nPredFac > 0
  /\ predOut.nTree >= 2
  /\ ptDone[1].treeBitOffset > 0
  /\ ptDone[2].nodeVec[0].lhId # NoLh /\ FacIdx(ptDone[2].nodeVec[0].predIdx) >= 0
  /\ \E r1, r2 \in Rows :
       /\ predOut.predictLeaves[r1][1] = 1
       /\ predOut.predictLeaves[r2][1] >= 2

\* The trees whose leaf for a row is not the sentinel, in prediction out.
TreesWalked(out, row) ==
  { tc \in 0 .. (out.nTree - 1) : out.predictLeaves[row][tc] >= 0 }

\* C13: the regression prediction of a row for which some tree was walked
\* is the sum of the leaf scores numForest[origin[t] + leaves[row][t]] over
\* exactly the trees t with leaves[row][t] >= 0, divided by the number of
\* these trees; the trees of leaf -1 count in neither.  Read over every
\* regression prediction step.
C13_RegressionMean ==
  [][(predOut' # predOut /\ ctgWidth = 0) =>
       \A row \in Rows :
         TreesWalked(predOut', row) # {} =>
           /\ predOut'.prediction[row].score =
                SumOver(TreesWalked(predOut', row),
                        [tc \in TreesWalked(predOut', row) |->
                           dt.numForest[dt.treeOriginForest[tc]
                                        + predOut'.predictLeaves[row][tc]]])
           /\ predOut'.prediction[row].treesSeen
                = Cardinality(TreesWalked(predOut', row))]_vars

\* Out of bag, a row skipped by one tree and walked by another whose leaf
\* score is not zero.
C13_Witness ==
  /\ predOut # NoCall /\ ctgWidth = 0 /\ predOut.useBag /\ predOut.nTree >= 2
  /\ \E row \in Rows :
       /\ \E tc \in 0 .. (predOut.nTree - 1) : predOut.predictLeaves[row][tc] = -1
       /\ TreesWalked(predOut, row) # {}
       /\ predOut.prediction[row].score > 0
       /\ predOut.prediction[row].treesSeen < predOut.nTree

\* C14: the regression aggregator guards the division by the number of
\* trees seen: for a row for which no tree was walked, the prediction is
\* not the quotient score / treesSeen with treesSeen = 0, that is, no
\* division by zero is performed.
C14_DivisionGuarded ==
  (predOut # NoCall /\ ctgWidth = 0) =>
    \A row \in Rows :
      TreesWalked(predOut, row) = {} => predOut.prediction[row].treesSeen # 0

\* The rows that are in the bag of every tree of the forest predicted.
RowsAllInBag == { row \in Rows : \A tc \in 0 .. (predOut.nTree - 1) : row \in BagOf(tc) }

\* C15: under useBag a row that is in-bag for every tree contributes to no
\* out-of-bag statistic: the confusion matrix counts only the other rows,
\* and the row has no term in the regression sum of squared errors.
C15_AllInBagRowExcluded ==
  (predOut # NoCall /\ predOut.useBag) =>
    IF ctgWidth > 0
    THEN SumOver(DOMAIN predOut.confusion, predOut.confusion)
           = Cardinality(Rows \ RowsAllInBag)
    ELSE \A row \in RowsAllInBag : row \notin DOMAIN predOut.sse

\* The category of greatest count in the census of a row, the lowest such.
BestCtg(censusRow) ==
  CHOOSE c \in DOMAIN censusRow :
    /\ \A e \in DOMAIN censusRow : censusRow[e] <= censusRow[c]
    /\ \A e \in DOMAIN censusRow : e < c => censusRow[e] < censusRow[c]

\* The rows with at least one vote in the census.
RowsVoted == { row \in Rows : \E c \in DOMAIN predOut.census[row] : predOut.census[row][c] > 0 }

\* C16: for each row with at least one vote Vote selects the category of
\* greatest census count, the lowest index winning ties.  Under useBag it
\* increments confusion[true category + ctgWidth * selected] once for such
\* a row and leaves yCtg as it was; without useBag it writes the selected
\* category to yCtg[row] and leaves the confusion matrix as it was (zero).
C16_VoteSelectsPlurality ==
  (predOut # NoCall /\ ctgWidth > 0) =>
    IF predOut.useBag
    THEN /\ \A row \in Rows : predOut.yCtg[row] = RowCtg(row)
         /\ \A k \in 0 .. (ctgWidth * ctgWidth - 1) :
              predOut.confusion[k] =
                Cardinality({ row \in RowsVoted :
                                RowCtg(row) + ctgWidth * BestCtg(predOut.census[row]) = k })
    ELSE /\ \A row \in RowsVoted : predOut.yCtg[row] = BestCtg(predOut.census[row])
         /\ \A row \in Rows \ RowsVoted : predOut.yCtg[row] = RowCtg(row)
         /\ \A k \in 0 .. (ctgWidth * ctgWidth - 1) : predOut.confusion[k] = 0

\* Out of bag, a row whose two categories tie with one vote each, next to
\* a row without votes.
C16_Witness ==
  /\ predOut # NoCall /\ ctgWidth > 0 /\ predOut.useBag
  /\ \E row \in RowsVoted :
       \A c \in DOMAIN predOut.census[row] : predOut.census[row][c] = 1
  /\ Rows \ RowsVoted # {}

(***************************************************************************)
(* The in-bag bits of the forest: FactoryTrain, then SetBagRow for         *)
(* distinct trees in any order, each with a bitmap of its own              *)
(***************************************************************************)
\* The bitmaps a pre-tree can hand over: one word, any subset of the rows.
PtInBags == {[slot \in {0} |-> w] : w \in 0 .. (Pow(2, NRow) - 1)}

\* ObsImmutables with nRow rows and FactoryTrain for nTree trees.
InitBag ==
  /\ IdleH
  /\ IdleSS /\ IdlePT /\ IdleTR
  /\ predictor = [nPredNum |-> 1, nPredFac |-> 0, maxFacCard |-> 0]
  /\ ctgWidth = 0
  /\ \E n \in 1 .. MaxRow : xObs = [r \in 0 .. (n - 1) |-> [p \in {0} |-> r]]
  /\ ptBlock = << >> /\ ptDone = << >> /\ predOut = NoCall
  /\ \E nTree \in 1 .. MaxTree :
       /\ dt = FactoryTrain(nTree)
       /\ bagSet = [t \in 0 .. (nTree - 1) |-> NullArr]

\* DecTree::SetBagRow(ptInBag, treeNum) for a tree not yet set.
BagSetRow(ptInBag, treeNum) ==
  /\ bagSet[treeNum] = NullArr
  /\ dt' = [dt EXCEPT !.inBag = SetBagRow(dt.inBag, dt.nTree, ptInBag, treeNum, 0)]
  /\ bagSet' = [bagSet EXCEPT ![treeNum] = ptInBag]
  /\ UNCHANGED <<ssVars, obsVars, hVars, ptVars, trVars, ptBlock, ptDone, predOut>>

NextBag ==
  \E treeNum \in DOMAIN bagSet : \E ptInBag \in PtInBags :
    BagSetRow(ptInBag, treeNum)

SpecBag == InitBag /\ [][NextBag]_vars

\* C17: after FactoryTrain and SetBagRow calls for distinct trees in any
\* order, InBag(t, row) is true exactly when tree t has been set and bit row
\* of the bitmap passed for it is set, for every row below nRow; as this
\* holds after every call, no call changes the answer of another tree, and a
\* tree not yet set reports no row in-bag.
C17_InBagMatchesBitmap ==
  \A t \in DOMAIN bagSet : \A row \in Rows :
    InBag(dt, t, row) <=>
      /\ bagSet[t] # NullArr
      /\ BitOf(bagSet[t][row \div SlotBits], row % SlotBits) = 1

\* Two trees set with different bitmaps, a third row set in neither, and a
\* row in-bag for the tree set first only.
C17_Witness ==
  /\ dt.nTree >= 2 /\ NRow >= 2
  /\ bagSet[0] # NullArr /\ bagSet[1] # NullArr
  /\ bagSet[0] # bagSet[1]
  /\ \E row \in Rows : InBag(dt, 0, row) /\ ~InBag(dt, 1, row)
  /\ \E row \in Rows : InBag(dt, 1, row) /\ ~InBag(dt, 0, row)

(***************************************************************************)
(* The layout of the packed forest                                         *)
(***************************************************************************)
\* The trees consumed so far, by number, and the sizes they had.
TreesConsumed == 0 .. (Len(ptDone) - 1)
SizeConsumed == [t \in TreesConsumed |-> ptDone[t + 1].treeHeight]

\* The forest positions of tree t: [origin[t], origin[t] + treeSize[t]).
ForestRange(t) ==
  { dt.treeOriginForest[t] + j : j \in 0 .. (SizeConsumed[t] - 1) }

\* C18: once the blocks have been consumed, the origin of tree t is the sum
\* of the sizes of the trees consumed before it, forestSize is the sum of
\* all sizes, and the ranges of the trees are pairwise disjoint and cover
\* [0, forestSize); after ConsumeTrees node j of tree t lies at position
\* origin[t] + j of predForest, numForest and bumpForest.
C18_ForestLayout ==
  (dt # NullArr /\ dt.nTree >= 1) =>
    /\ \A t \in TreesConsumed :
         dt.treeOriginForest[t] = SumOver(0 .. (t - 1), SizeConsumed)
    /\ dt.forestSize = SumOver(TreesConsumed, SizeConsumed)
    /\ \A t, u \in TreesConsumed : t # u => ForestRange(t) \cap ForestRange(u) = {}
    /\ UNION { ForestRange(t) : t \in TreesConsumed } = 0 .. (dt.forestSize - 1)
    /\ dt.predForest # NullArr =>
         \A t \in TreesConsumed : \A j \in 0 .. (SizeConsumed[t] - 1) :
           LET node == ConsumeNodes(ptDone[t + 1])
               k == dt.treeOriginForest[t] + j
           IN  /\ dt.predForest[k] = node.pred[j]
               /\ dt.numForest[k] = node.num[j]
               /\ dt.bumpForest[k] = node.bump[j]

\* Two trees of different sizes packed: the second starts past the nodes of
\* the first and differs from it at its root.
C18_Witness ==
  /\ dt # NullArr /\ dt.nTree = 2 /\ Len(ptDone) = 2
  /\ dt.predForest # NullArr
  /\ SizeConsumed[0] >= 3
  /\ SizeConsumed[0] # SizeConsumed[1]
  /\ dt.treeOriginForest[1] = SizeConsumed[0]
  /\ dt.bumpForest[dt.treeOriginForest[1]] # dt.bumpForest[0]

\* The split bits of the packed forest d laid out as the trees consumed had
\* them: the offset of tree t is the sum of the widths of the trees before
\* it, and bit i of tree t lies at facOffForest[t] + i.
FacBitsConcatenated(d) ==
  /\ \A t \in TreesConsumed :
       /\ d.treeFacWidth[t] = SplitFacWidth(ptDone[t + 1])
       /\ d.facOffForest[t] = SumOver(0 .. (t - 1), d.treeFacWidth)
       /\ \A i \in 0 .. (d.treeFacWidth[t] - 1) :
            (d.facSplitForest[d.facOffForest[t] + i] = 1)
              <=> ptDone[t + 1].treeSplitBits[i]
  /\ IF SumOver(TreesConsumed, d.treeFacWidth) > 0
     THEN DOMAIN d.facSplitForest
            = 0 .. (SumOver(TreesConsumed, d.treeFacWidth) - 1)
     ELSE d.facSplitForest = NullArr

\* C19: ConsumeTrees concatenates the factor bitmaps of the trees in tree
\* order: facOffForest[t] is the sum of treeFacWidth over the trees before
\* t, bit i of the bitmap of tree t is at facSplitForest[facOffForest[t] + i],
\* the cumFacWidth put out is the sum of all widths, and a tree of zero
\* width contributes no bits.
C19_FacBitsConcatenated ==
  [][(dt.facOffForest = NullArr /\ dt'.facOffForest # NullArr) =>
       /\ ConsumeTrees(dt).cumFacWidth = SumOver(TreesConsumed, dt.treeFacWidth)
       /\ FacBitsConcatenated(dt')]_vars

\* Two trees with factor splits packed, the bits of the second behind those
\* of the first, with a set and a clear bit among them.
C19_Witness ==
  /\ dt # NullArr /\ dt.nTree = 2 /\ dt.facOffForest # NullArr
  /\ dt.treeFacWidth[0] > 0 /\ dt.treeFacWidth[1] > 0
  /\ dt.facOffForest[1] = dt.treeFacWidth[0]
  /\ \E i, k \in 0 .. (dt.treeFacWidth[1] - 1) :
       /\ dt.facSplitForest[dt.facOffForest[1] + i] = 1
       /\ dt.facSplitForest[dt.facOffForest[1] + k] = 0
  /\ ptDone[1].treeSplitBits # ptDone[2].treeSplitBits

(***************************************************************************)
(* The storage of one PreTree: splits that fill the node vector and the    *)
(* split bits, and CheckStorage calls for levels of any width              *)
(***************************************************************************)
\* The greatest count of splits or leaves of a next level passed to
\* CheckStorage.
MaxNext == 3

\* A numeric split of the terminal node id.
StoreSplitNum(id) ==
  /\ ptOut = NoCall
  /\ pt.nodeVec[id].lhId = NoLh
  /\ pt.treeHeight + 2 <= pt.nodeCount
  /\ pt.treeHeight + 2 <= MaxHeight
  /\ pt' = NonTerminal(TerminalOffspring(pt, id), id, 1, 1, 0)
  /\ lastCS' = NoCall
  /\ UNCHANGED <<heightEst, ptOut>>

\* A factor split of the terminal node id, the level rank sent left.
StoreSplitFac(id, rank) ==
  /\ ptOut = NoCall
  /\ predictor.nPredFac > 0
  /\ pt.nodeVec[id].lhId = NoLh
  /\ pt.treeHeight + 2 <= pt.nodeCount
  /\ pt.treeHeight + 2 <= MaxHeight
  /\ pt.treeBitOffset + predictor.maxFacCard <= pt.bitLength
  /\ pt' = LHBit(PreTreeNonTerminalFac(pt, 1, predictor.nPredNum, id), id, rank)
  /\ lastCS' = NoCall
  /\ UNCHANGED <<heightEst, ptOut>>

NextStore ==
  \/ \E id \in 0 .. (pt.treeHeight - 1) :
       StoreSplitNum(id) /\ UNCHANGED <<ssVars, obsVars, hVars, trVars, dtVars>>
  \/ \E id \in 0 .. (pt.treeHeight - 1), rank \in 0 .. (predictor.maxFacCard - 1) :
       StoreSplitFac(id, rank) /\ UNCHANGED <<ssVars, obsVars, hVars, trVars, dtVars>>
  \/ \E sn \in 0 .. MaxNext, ln \in 0 .. MaxNext :
       RawCheckStorage(sn, ln) /\ UNCHANGED <<ssVars, obsVars, hVars, trVars, dtVars>>

SpecStore == InitRaw /\ [][NextStore]_vars

\* The overflows that the call recorded in lastCS detected.
NodeOverflow ==
  lastCS.before.treeHeight + lastCS.splitNext + lastCS.leafNext
    > lastCS.before.nodeCount
BitOverflow ==
  /\ predictor.nPredFac > 0
  /\ lastCS.before.treeBitOffset + lastCS.splitNext * predictor.maxFacCard
       > lastCS.before.bitLength

\* C20: when CheckStorage finds treeHeight + splitNext + leafNext above the
\* node capacity, the node vector has exactly twice the capacity afterwards
\* and every node below treeHeight keeps all of its fields; when the factor
\* bits needed exceed bitLength, the bit vector has twice the length, the
\* bits below treeBitOffset are kept and all other bits are false; when no
\* overflow is detected, neither structure changes.
C20_CheckStorageDoubles ==
  lastCS # NoCall =>
    LET b == lastCS.before
    IN  /\ IF NodeOverflow
           THEN /\ pt.nodeCount = 2 * b.nodeCount
                /\ DOMAIN pt.nodeVec = 0 .. (2 * b.nodeCount - 1)
                /\ \A i \in 0 .. (b.treeHeight - 1) : pt.nodeVec[i] = b.nodeVec[i]
           ELSE pt.nodeCount = b.nodeCount /\ pt.nodeVec = b.nodeVec
        /\ IF BitOverflow
           THEN /\ pt.bitLength = 2 * b.bitLength
                /\ DOMAIN pt.treeSplitBits = 0 .. (2 * b.bitLength - 1)
                /\ \A i \in 0 .. (b.treeBitOffset - 1) :
                     pt.treeSplitBits[i] = b.treeSplitBits[i]
                /\ \A i \in b.treeBitOffset .. (2 * b.bitLength - 1) :
                     pt.treeSplitBits[i] = FALSE
           ELSE pt.bitLength = b.bitLength /\ pt.treeSplitBits = b.treeSplitBits
        /\ pt.treeHeight = b.treeHeight /\ pt.treeBitOffset = b.treeBitOffset
        /\ (~NodeOverflow /\ ~BitOverflow) => pt = b

\* A call that found both overflows on a tree with a factor split: the
\* node of the split and a set bit below treeBitOffset were there to keep.
C20_Witness ==
  /\ lastCS # NoCall
  /\ NodeOverflow /\ BitOverflow
  /\ lastCS.before.treeHeight >= 3
  /\ lastCS.before.treeBitOffset > 0
  /\ \E i \in 0 .. (lastCS.before.treeBitOffset - 1) : pt.treeSplitBits[i]
  /\ pt.nodeCount = 2 * lastCS.before.nodeCount
  /\ pt.bitLength = 2 * lastCS.before.bitLength

(***************************************************************************)
(* The height-estimate loops of PreTree, one iteration per step.  The      *)
(* unsigned twoL holds at most one set bit and is kept as the position of  *)
(* that bit; arguments are below 2^31.                                     *)
(***************************************************************************)
\* twoL <<= 1 on the bit position: bit 31 is shifted out of the word.
ShlBit(bit) == IF bit >= SlotBits THEN SlotBits ELSE bit + 1

\* twoL * _minH < _nSamp in unsigned arithmetic, twoL having bit set: the
\* product keeps the low 32 - bit bits of minH, shifted by bit.
ImmutablesCond(bit, minH, nSamp) ==
  IF nSamp = 0 THEN FALSE
  ELSE IF bit >= SlotBits THEN TRUE
  ELSE LET m == IF bit <= 1 THEN minH ELSE minH % Pow(2, SlotBits - bit)
       IN  IF bit = SlotBits - 1 THEN m = 0
           ELSE m <= (nSamp - 1) \div Pow(2, bit)

\* twoL << 2 as an unsigned value.
ShlTwo(bit) == IF bit + 2 >= SlotBits THEN 0 ELSE Pow(2, bit + 2)

\* A variant of RefineCond that stops as soon as the estimate reaches height.
RefineCondLt(est, height) == est < height

\* The condition of the loop of RefineHeight.
RefineCond(est, height) == est <= height

\* heightEst <<= 1; an estimate the loop shifts is at most height, below 2^30.
ShlOne(est) == 2 * est

\* The call of PreTree::Immutables, up to its loop.
HImmutables(nSamp, minH) ==
  /\ hPc = "idle"
  /\ hPc' = "immutables"
  /\ twoLBit' = 0
  /\ hCall' = [op |-> "Immutables", nSamp |-> nSamp, minH |-> minH, height |-> 0,
               before |-> heightEst, returned |-> FALSE]
  /\ UNCHANGED <<ptVars>>

\* One test of the loop of Immutables: an iteration, or the assignment of
\* heightEst and the return.
HImmutablesLoop ==
  /\ hPc = "immutables"
  /\ IF ImmutablesCond(twoLBit, hCall.minH, hCall.nSamp)
     THEN /\ twoLBit' = ShlBit(twoLBit)
          /\ UNCHANGED <<hPc, hCall, ptVars>>
     ELSE /\ heightEst' = ShlTwo(twoLBit)
          /\ hPc' = "idle"
          /\ hCall' = [hCall EXCEPT !.returned = TRUE]
          /\ UNCHANGED <<twoLBit, pt, ptOut, lastCS>>

\* PreTree::DeImmutables.
HDeImmutables ==
  /\ hPc = "idle"
  /\ heightEst' = 0
  /\ hCall' = [op |-> "DeImmutables", nSamp |-> 0, minH |-> 0, height |-> 0,
               before |-> heightEst, returned |-> TRUE]
  /\ UNCHANGED <<hPc, twoLBit, pt, ptOut, lastCS>>

\* The call of PreTree::RefineHeight.
HRefineHeight(height) ==
  /\ hPc = "idle"
  /\ hPc' = "refine"
  /\ hCall' = [op |-> "RefineHeight", nSamp |-> 0, minH |-> 0, height |-> height,
               before |-> heightEst, returned |-> FALSE]
  /\ UNCHANGED <<twoLBit, ptVars>>

\* One test of the loop of RefineHeight: an iteration, or the return.
HRefineLoop ==
  /\ hPc = "refine"
  /\ IF RefineCond(heightEst, hCall.height)
     THEN /\ heightEst' = ShlOne(heightEst)
          /\ UNCHANGED <<hPc, twoLBit, hCall, pt, ptOut, lastCS>>
     ELSE /\ hPc' = "idle"
          /\ hCall' = [hCall EXCEPT !.returned = TRUE]
          /\ UNCHANGED <<twoLBit, ptVars>>

\* The statics as the program starts: heightEst = 0, no PreTree.
InitHeight ==
  /\ IdleSS /\ IdleObs /\ IdlePT /\ IdleTR /\ IdleDT /\ IdleH

NextHeight ==
  \/ \E nSamp \in 0 .. MaxRow, minH \in 0 .. MaxRow :
       HImmutables(nSamp, minH) /\ UNCHANGED <<ssVars, obsVars, trVars, dtVars>>
  \/ HImmutablesLoop /\ UNCHANGED <<ssVars, obsVars, trVars, dtVars>>
  \/ HDeImmutables /\ UNCHANGED <<ssVars, obsVars, trVars, dtVars>>
  \/ \E height \in 0 .. MaxHeight :
       HRefineHeight(height) /\ UNCHANGED <<ssVars, obsVars, trVars, dtVars>>
  \/ HRefineLoop /\ UNCHANGED <<ssVars, obsVars, trVars, dtVars>>

\* A loop that is running goes on running: the thread is not suspended.
SpecHeight ==
  /\ InitHeight /\ [][NextHeight]_vars
  /\ WF_vars(HImmutablesLoop /\ UNCHANGED <<ssVars, obsVars, trVars, dtVars>>)
  /\ WF_vars(HRefineLoop /\ UNCHANGED <<ssVars, obsVars, trVars, dtVars>>)

\* The powers of two of an unsigned word that the arithmetic here can hold.
PowersOfTwo == { Pow(2, k) : k \in 0 .. (SlotBits - 2) }

\* The smallest power of two that is at least h, and that is above h.
SmallestPowGeq(h) == CHOOSE q \in PowersOfTwo :
                       q >= h /\ \A r \in PowersOfTwo : r >= h => q <= r
SmallestPowGt(h) == CHOOSE q \in PowersOfTwo :
                      q > h /\ \A r \in PowersOfTwo : r > h => q <= r

\* A call of RefineHeight has returned and nothing has been called since.
RefineReturned ==
  hCall # NoCall /\ hCall.op = "RefineHeight" /\ hCall.returned

\* C21, as claimed: after RefineHeight(height) the height estimate is the
\* smallest power of two that is at least the height observed.
C21_SmallestPowGeqHeight ==
  RefineReturned => heightEst = SmallestPowGeq(hCall.height)

\* C21, amended: after RefineHeight(height) has returned, the height
\* estimate is the smallest power of two strictly above the height
\* observed, or the estimate held before the call if that is greater.
C21_SmallestPowAboveHeight ==
  RefineReturned =>
    /\ heightEst \in PowersOfTwo
    /\ heightEst = IF hCall.before > SmallestPowGt(hCall.height)
                   THEN hCall.before ELSE SmallestPowGt(hCall.height)

\* RefineHeight(4) on the estimate 4 has doubled it.
C21_Witness ==
  /\ RefineReturned
  /\ hCall.before = 4 /\ hCall.height = 4 /\ heightEst = 8

(***************************************************************************)
(* The writers of one level                                                *)
(***************************************************************************)
\* The (split node, predictor) pairs of the level.
PairsSS == (0 .. (splitCount - 1)) \X (0 .. (nPred - 1))

\* C22: within a level the Write calls of distinct (split node, predictor)
\* pairs land in distinct slots p * splitCount + n of the level matrix, so
\* that in every interleaving the matrix holds, for each pair written, what
\* the last Write for that pair stored and nothing in the other slots; and
\* ArgMax(n, .) reads the slots of node n only, never one of another node.
C22_WritersDisjoint ==
  levelSS # NullArr =>
    /\ \A a, b \in PairsSS :
         /\ Lookup(a[1], a[2]) \in DOMAIN levelSS
         /\ Lookup(a[1], a[2]) = Lookup(b[1], b[2]) => a = b
    /\ \A a \in PairsSS :
         IF a \in DOMAIN ssHist
         THEN levelSS[Lookup(a[1], a[2])]
                = WriteNode(a[2], SSPayload(a[2]).setIdx, SSPayload(a[2]).sCount,
                            SSPayload(a[2]).lhIdxCount, ssHist[a])
         ELSE levelSS[Lookup(a[1], a[2])].info = NegDblMax
    /\ ssArg # NoCall =>
         /\ ssArg.reads = { Lookup(ssArg.levelIdx, p) : p \in 0 .. (nPred - 1) }
         /\ \A a \in PairsSS :
              Lookup(a[1], a[2]) \in ssArg.reads => a[1] = ssArg.levelIdx

\* Two nodes and two predictors, all four pairs written with the infos of
\* the two nodes differing, and ArgMax called on the second node.
C22_Witness ==
  /\ levelSS # NullArr /\ splitCount = 2 /\ nPred = 2
  /\ DOMAIN ssHist = PairsSS
  /\ ssHist[<<0, 0>>] # ssHist[<<1, 0>>]
  /\ ssHist[<<0, 1>>] # ssHist[<<1, 1>>]
  /\ ssArg # NoCall /\ ssArg.levelIdx = 1 /\ ssArg.reads = {1, 3}

\* C23: on a PreTree whose every TerminalOffspring(parent) call is paired
\* with exactly one NonTerminal(parent, ...) call, after every such pair
\* leafCount is the number of nodes below treeHeight whose lhId is -1 and
\* treeHeight is twice the number of nonterminals plus one; a fresh PreTree
\* has treeHeight = leafCount = 1 and a terminal root of id 0.
C23_LeafCountAndHeight ==
  pt # NullArr =>
    /\ pt.leafCount = Cardinality(PtNodes \ PtNonTerminals)
    /\ pt.treeHeight = 2 * Cardinality(PtNonTerminals) + 1
    /\ PtNonTerminals = {} =>
         /\ pt.treeHeight = 1 /\ pt.leafCount = 1
         /\ pt.nodeVec[0].id = 0 /\ pt.nodeVec[0].lhId = NoLh

\* Two pairs made, the second on a child of the root: five nodes, three of
\* them leaves.
C23_Witness ==
  /\ pt # NullArr
  /\ pt.treeHeight = 5 /\ pt.leafCount = 3
  /\ PtNonTerminals = {0, 2}

WalkStep(d, tc, row, idx) ==
  IF FacIdx(d.predForest[d.treeOriginForest[tc] + idx]) >= 0
  THEN CategoricalStep(d, tc, row, idx)
  ELSE NumericStep(d, tc, row, idx)

\* The number of steps of the walk of a row through tree tc from idx on,
\* within fuel steps; -1 if the walk leaves the nodes of the tree, fails
\* to advance or is still at a nonterminal when the fuel is spent.
RECURSIVE WalkSteps(_, _, _, _, _)
WalkSteps(d, tc, row, idx, fuel) ==
  IF idx < 0 \/ idx >= d.treeSizes[tc] THEN -1
  ELSE IF d.bumpForest[d.treeOriginForest[tc] + idx] = 0 THEN 0
  ELSE IF fuel = 0 THEN -1
  ELSE LET nx == WalkStep(d, tc, row, idx)
           rest == WalkSteps(d, tc, row, nx, fuel - 1)
       IN  IF nx <= idx \/ rest < 0 THEN -1 ELSE 1 + rest

\* The forest has been packed and not torn down.
ForestPacked == dt # NullArr /\ dt.nTree >= 1 /\ dt.predForest # NullArr

\* C25: in a forest consumed from pre-trees every walk of a row through a
\* tree terminates: the relative index grows at every step, stays below the
\* size of the tree, and the walk ends at a terminal node after at most
\* treeSize - 1 steps.
C25_WalksTerminate ==
  ForestPacked =>
    \A tc \in 0 .. (dt.nTree - 1) : \A row \in Rows :
      WalkSteps(dt, tc, row, 0, dt.treeSizes[tc] - 1) \in 0 .. (dt.treeSizes[tc] - 1)

\* A tree of five nodes in a forest of two, with a row whose walk takes
\* two steps and a row whose walk takes one.
C25_Witness ==
  /\ ForestPacked /\ dt.nTree = 2
  /\ dt.treeSizes[1] = 5
  /\ \E row \in Rows : WalkSteps(dt, 1, row, 0, 4) = 2
  /\ \E row \in Rows : WalkSteps(dt, 1, row, 0, 4) = 1

\* C26: after the classification prediction of a row the counts of its
\* census over all categories add up to the number of trees walked for it:
\* all nTree trees without useBag, the trees the row is out-of-bag for
\* under useBag.  Read over every prediction step, the forest being that
\* before the step and the census that after it.
C26_CensusCountsTreesWalked ==
  [][(predOut' # predOut /\ ctgWidth > 0) =>
       \A row \in Rows :
         SumOver(0 .. (ctgWidth - 1), predOut'.census[row])
           = Cardinality({ tc \in 0 .. (dt.nTree - 1) :
                             ~(predOut'.useBag /\ InBag(dt, tc, row)) })]_vars

\* An out-of-bag classification over two trees: a row walked by both, a
\* row walked by one and a row walked by none.
C26_Witness ==
  /\ predOut # NoCall /\ ctgWidth > 0 /\ predOut.useBag /\ predOut.nTree = 2
  /\ \E row \in Rows : SumOver(0 .. (ctgWidth - 1), predOut.census[row]) = 2
  /\ \E row \in Rows : SumOver(0 .. (ctgWidth - 1), predOut.census[row]) = 1
  /\ \E row \in Rows : SumOver(0 .. (ctgWidth - 1), predOut.census[row]) = 0

\* C27: PTNode::Consume on a leaf changes only the bump output, which it
\* sets to 0: the value and the score that Scores wrote for the leaf before
\* the loop of ConsumeNodes are what the vectors hold afterwards.  On a
\* nonterminal all three outputs are overwritten, with (predIdx, splitVal,
\* lhId - id), so that no leaf score is lost and no nonterminal keeps what
\* Scores wrote.  Read in the state between BlockConsume and ConsumeTrees.
C27_LeafScoreKept ==
  (Len(ptDone) = 1 /\ dt.nTree = 1 /\ dt.predForest = NullArr) =>
    LET sc == Scores(TreeDone)
    IN  \A i \in 0 .. (TreeDone.treeHeight - 1) :
          IF TreeDone.nodeVec[i].lhId = NoLh
          THEN /\ dt.predTree[0][i] = sc.nodeVal[i]
               /\ dt.splitTree[0][i] = sc.numVec[i]
               /\ dt.bumpTree[0][i] = 0
          ELSE /\ dt.predTree[0][i] = TreeDone.nodeVec[i].predIdx
               /\ dt.splitTree[0][i] = TreeDone.nodeVec[i].splitVal
               /\ dt.bumpTree[0][i] = TreeDone.nodeVec[i].lhId - TreeDone.nodeVec[i].id

\* A consumed tree with a leaf that keeps a score and a sample count, both
\* above zero, and a nonterminal for which Scores wrote something other
\* than its split.
C27_Witness ==
  /\ Len(ptDone) = 1 /\ dt.nTree = 1 /\ dt.predForest = NullArr
  /\ \E i \in 0 .. (TreeDone.treeHeight - 1) :
       /\ TreeDone.nodeVec[i].lhId = NoLh
       /\ dt.splitTree[0][i] > 0 /\ dt.predTree[0][i] > 0
       /\ dt.splitTree[0][i] = Scores(TreeDone).numVec[i]
  /\ \E i \in 0 .. (TreeDone.treeHeight - 1) :
       /\ TreeDone.nodeVec[i].lhId # NoLh
       /\ \/ dt.splitTree[0][i] # Scores(TreeDone).numVec[i]
          \/ dt.predTree[0][i] # Scores(TreeDone).nodeVal[i]

(***************************************************************************)
(* Termination of the height-estimate loops                                *)
(***************************************************************************)
\* A call of Immutables has returned and nothing has been called since.
ImmutablesReturned ==
  hCall # NoCall /\ hCall.op = "Immutables" /\ hCall.returned

\* The powers of two up to the first one that is at least MaxRow, the
\* greatest nSamp of a call.
LowPowersOfTwo == { Pow(2, k) : k \in 0 .. MaxRow }

\* C28: the height-estimate loops terminate for every input.  A call of
\* Immutables(nRow, nSamp, minH) returns for all nSamp and minH, minH = 0
\* included, leaving heightEst = 4 * the smallest power of two twoL with
\* twoL * minH >= nSamp; a call of RefineHeight(height) returns for every
\* height and every estimate, the 0 that DeImmutables leaves included, and
\* does not decrease heightEst.
C28_HeightLoopsTerminate ==
  /\ (hPc = "immutables") ~> ImmutablesReturned
  /\ (hPc = "refine") ~> RefineReturned
  /\ [](ImmutablesReturned =>
          \E q \in LowPowersOfTwo :
            /\ q * hCall.minH >= hCall.nSamp
            /\ \A r \in LowPowersOfTwo : r * hCall.minH >= hCall.nSamp => q <= r
            /\ heightEst = 4 * q)
  /\ [](RefineReturned => heightEst >= hCall.before)

Spec == SpecSS
=============================================================================
